---------------------------- MODULE Spec2Model ----------------------------
(***************************************************************************)
(* A model of zeitstempel-react's core: the .ots codec (parser.ts,         *)
(* writer.ts), the operation engine (operations.ts), the verifier          *)
(* (verify.ts, bitcoin.ts) and the upgrader (upgrade.ts).                   *)
(*                                                                         *)
(* Representation.                                                         *)
(*   Uint8Array       a sequence of 0..255                                 *)
(*   number           a pair <<hi, lo>> standing for hi * 2^28 + lo, so    *)
(*                    that every value below 2^53 is representable, or     *)
(*                    NumNaN; a cursor position or a length is an integer, *)
(*                    or NaN                                               *)
(*   string           a sequence of Unicode code points; its length and    *)
(*                    its indices in the code count UTF-16 units           *)
(*   thrown error     a record with ok = FALSE and the error's text        *)
(***************************************************************************)
EXTENDS Integers, Sequences, FiniteSets, TLC

\* ------------------------------------------------------------------------
\* Bytes and numbers
\* ------------------------------------------------------------------------

Limb == 2^28

NumOf(n) == <<n \div Limb, n % Limb>>

\* NaN where the code holds a position or a length, NumNaN where it holds a
\* number; undefined, the element of a Uint8Array at the index NaN.
NaN == -1

NumNaN == <<NaN, NaN>>

Undefined == -2

NumSmall(v) == v[2]

\* v + payload * 2^shift, the addition of readVaruint (parser.ts:89).  From
\* shift 1024 on 2 ** shift is Infinity, and 0 * Infinity is NaN; a payload
\* above 0 is met below shift 56 only, the checks before the addition throw.
NumAddShifted(v, payload, shift) ==
  IF v = NumNaN \/ (payload = 0 /\ shift >= 1024) THEN NumNaN
  ELSE IF payload = 0 THEN v
  ELSE IF shift < 28
       THEN LET s == v[2] + payload * 2^shift
            IN  <<v[1] + s \div Limb, s % Limb>>
       ELSE <<v[1] + payload * 2^(shift - 28), v[2]>>

\* v & 0x7f (writer.ts:45); NaN & 0x7f is 0.
NumLow7(v) == IF v = NumNaN THEN 0 ELSE v[2] % 128

\* Math.floor(v / 128) (writer.ts:46).
\* A division that keeps only the low word of the number.
NumDiv128LowWord(v) == <<0, v[2] \div 128>>

NumDiv128(v) ==
  IF v = NumNaN THEN NumNaN
  ELSE <<v[1] \div 128, (v[1] % 128) * 2^21 + v[2] \div 128>>

\* a > n for a small n (the length cap of readVarbytes); false of NaN.
NumGreater(v, n) == v # NumNaN /\ (v[1] > 0 \/ v[2] > n)

Slice(s, from, to) == [i \in 1..(to - from) |-> s[from + i]]

RECURSIVE Reverse(_)
Reverse(s) == IF s = <<>> THEN <<>> ELSE Reverse(Tail(s)) \o <<Head(s)>>

\* The statements that follow a step, f, run on what the step left, r.
Then(r, f(_)) == f(r)

\* The same for a step that may throw (r.ok = FALSE): the throw is passed on.
Try(r, f(_)) == IF r.ok THEN f(r) ELSE r

\* ------------------------------------------------------------------------
\* constants.ts
\* ------------------------------------------------------------------------

HEADER_MAGIC ==
  << 0, 79, 112, 101, 110, 84, 105, 109,
     101, 115, 116, 97, 109, 112, 115, 0,
     0, 80, 114, 111, 111, 102, 0, 191,
     137, 226, 232, 132, 232, 146, 148 >>

TAG_APPEND == 240
TAG_PREPEND == 241
TAG_REVERSE == 242
TAG_HEXLIFY == 243
TAG_SHA1 == 2
TAG_RIPEMD160 == 3
TAG_SHA256 == 8
TAG_KECCAK256 == 103
TAG_ATTESTATION == 0
TAG_FORK == 255

ATT_TAG_BITCOIN  == <<5, 136, 150, 13, 115, 215, 25, 1>>
ATT_TAG_LITECOIN == <<6, 134, 154, 13, 115, 215, 27, 69>>
ATT_TAG_ETHEREUM == <<48, 254, 128, 135, 181, 199, 234, 215>>
ATT_TAG_PENDING  == <<131, 223, 227, 13, 46, 249, 12, 142>>

HASH_OP_DIGEST_LEN(h) ==
  CASE h = "sha256" -> 32
    [] h = "sha1" -> 20
    [] h = "ripemd160" -> 20
    [] h = "keccak256" -> 32

\* TAG_TO_HASH_OP[tag], "" standing for undefined.
TAG_TO_HASH_OP(tag) ==
  CASE tag = TAG_SHA256 -> "sha256"
    [] tag = TAG_SHA1 -> "sha1"
    [] tag = TAG_RIPEMD160 -> "ripemd160"
    [] tag = TAG_KECCAK256 -> "keccak256"
    [] OTHER -> ""

HASH_OP_TO_TAG(h) ==
  CASE h = "sha256" -> TAG_SHA256
    [] h = "sha1" -> TAG_SHA1
    [] h = "ripemd160" -> TAG_RIPEMD160
    [] h = "keccak256" -> TAG_KECCAK256

\* ------------------------------------------------------------------------
\* hex.ts
\* ------------------------------------------------------------------------

\* HEX_CHARS[d] as a character code.
HexChar(d) == IF d < 10 THEN 48 + d ELSE 87 + d

\* parseInt(c, 16) of one character; -1 stands for NaN.
ParseHexDigit(c) ==
  IF c >= 48 /\ c <= 57 THEN c - 48
  ELSE IF c >= 97 /\ c <= 102 THEN c - 87
  ELSE IF c >= 65 /\ c <= 70 THEN c - 55
  ELSE -1

\* Two characters for every byte, the high digit first.
bytesToHex(bytes) ==
  [k \in 1..(2 * Len(bytes)) |->
     IF k % 2 = 1 THEN HexChar(bytes[(k + 1) \div 2] \div 16)
     ELSE HexChar(bytes[k \div 2] % 16)]

\* The UTF-16 code units of a string, which is what its length counts and
\* its index reaches: a code point above 0xFFFF is two units, a high and a
\* low surrogate.
RECURSIVE Surrogates(_)
Surrogates(s) ==
  IF s = <<>> THEN <<>>
  ELSE (IF Head(s) > 65535
        THEN <<55296 + (Head(s) - 65536) \div 1024,
               56320 + ((Head(s) - 65536) % 1024)>>
        ELSE <<Head(s)>>) \o Surrogates(Tail(s))

Utf16(s) == IF \A i \in 1..Len(s) : s[i] <= 65535 THEN s ELSE Surrogates(s)

\* The bytes of the loop of hexToBytes, one for every two units.
HexPairs(hex) ==
  [k \in 1..(Len(hex) \div 2) |->
     ParseHexDigit(hex[2 * k - 1]) * 16 + ParseHexDigit(hex[2 * k])]

hexToBytes(hex) ==
  Then(Utf16(hex), LAMBDA units :
    IF Len(units) % 2 # 0
    THEN [ok |-> FALSE, err |-> "Odd-length hex string", val |-> <<>>]
    ELSE IF \E i \in 1..Len(units) : ParseHexDigit(units[i]) < 0
    THEN [ok |-> FALSE, err |-> "Invalid hex character", val |-> <<>>]
    ELSE [ok |-> TRUE, err |-> "", val |-> HexPairs(units)])

\* result |= a[i] ^ b[i] over every position; TRUE iff the result is 0.
RECURSIVE XorAccumulate(_, _, _)
XorAccumulate(a, b, i) ==
  IF i > Len(a) THEN FALSE
  ELSE LET rest == XorAccumulate(a, b, i + 1)
       IN  (a[i] # b[i]) \/ rest

constantTimeEqual(a, b) ==
  IF Len(a) # Len(b) THEN FALSE ELSE ~XorAccumulate(a, b, 1)

\* ------------------------------------------------------------------------
\* TextEncoder / TextDecoder (UTF-8), used for the Pending URI
\* ------------------------------------------------------------------------

REPLACEMENT == 65533

EncodeCodePoint(c) ==
  IF c < 128 THEN <<c>>
  ELSE IF c < 2048 THEN <<192 + c \div 64, 128 + (c % 64)>>
  ELSE IF c >= 55296 /\ c <= 57343 THEN <<239, 191, 189>>
  ELSE IF c < 65536
       THEN <<224 + c \div 4096, 128 + ((c \div 64) % 64), 128 + (c % 64)>>
  ELSE <<240 + c \div 262144, 128 + ((c \div 4096) % 64),
         128 + ((c \div 64) % 64), 128 + (c % 64)>>

\* new TextEncoder().encode(s)
RECURSIVE TextEncode(_)
TextEncode(s) ==
  IF s = <<>> THEN <<>> ELSE EncodeCodePoint(Head(s)) \o TextEncode(Tail(s))

\* The UTF-8 decoder of the Encoding standard: cp, seen, needed, lower and
\* upper are its state, invalid input gives U+FFFD.
RECURSIVE Utf8Decode(_, _, _, _, _, _, _)
Utf8Decode(b, i, cp, seen, needed, lower, upper) ==
  IF i > Len(b) THEN (IF needed # 0 THEN <<REPLACEMENT>> ELSE <<>>)
  ELSE LET byte == b[i] IN
    IF needed = 0 THEN
      IF byte <= 127 THEN <<byte>> \o Utf8Decode(b, i + 1, 0, 0, 0, 128, 191)
      ELSE IF byte >= 194 /\ byte <= 223
        THEN Utf8Decode(b, i + 1, byte % 32, 0, 1, 128, 191)
      ELSE IF byte >= 224 /\ byte <= 239
        THEN Utf8Decode(b, i + 1, byte % 16, 0, 2,
                        IF byte = 224 THEN 160 ELSE 128,
                        IF byte = 237 THEN 159 ELSE 191)
      ELSE IF byte >= 240 /\ byte <= 244
        THEN Utf8Decode(b, i + 1, byte % 8, 0, 3,
                        IF byte = 240 THEN 144 ELSE 128,
                        IF byte = 244 THEN 143 ELSE 191)
      ELSE <<REPLACEMENT>> \o Utf8Decode(b, i + 1, 0, 0, 0, 128, 191)
    ELSE IF byte < lower \/ byte > upper
      THEN <<REPLACEMENT>> \o Utf8Decode(b, i, 0, 0, 0, 128, 191)
    ELSE LET cp2 == cp * 64 + (byte % 64) IN
      IF seen + 1 # needed
      THEN Utf8Decode(b, i + 1, cp2, seen + 1, needed, 128, 191)
      ELSE <<cp2>> \o Utf8Decode(b, i + 1, 0, 0, 0, 128, 191)

\* new TextDecoder().decode(bytes): UTF-8, not fatal, a leading BOM dropped.
TextDecode(bytes) ==
  LET s == Utf8Decode(bytes, 1, 0, 0, 0, 128, 191)
  IN  IF s # <<>> /\ Head(s) = 65279 THEN Tail(s) ELSE s

\* ------------------------------------------------------------------------
\* parser.ts: Cursor.  A read returns [ok, err, val, pos]; pos is the
\* cursor position after the read (0-based, as in the source).
\* ------------------------------------------------------------------------

Ok(v, p) == [ok |-> TRUE, err |-> "", val |-> v, pos |-> p]

Fail(e) == [ok |-> FALSE, err |-> e, val |-> <<>>, pos |-> 0]

EOF == "Unexpected end of file"

\* A comparison with NaN is false, whichever way it is asked: at the
\* position NaN no read throws, and remaining() > 0 is false.
remaining(data, pos) == IF pos = NaN THEN NaN ELSE Len(data) - pos

peek(data, pos) ==
  IF pos = NaN THEN Ok(Undefined, NaN)
  ELSE IF pos >= Len(data) THEN Fail(EOF) ELSE Ok(data[pos + 1], pos)

readByte(data, pos) ==
  IF pos = NaN THEN Ok(Undefined, NaN)
  ELSE IF pos >= Len(data) THEN Fail(EOF) ELSE Ok(data[pos + 1], pos + 1)

\* data.slice(pos, pos + n) is empty when pos + n is NaN, and pos += n
\* leaves the cursor at NaN.
readBytes(data, pos, n) ==
  IF pos = NaN \/ n = NaN THEN Ok(<<>>, NaN)
  ELSE IF pos + n > Len(data) THEN Fail(EOF)
  ELSE Ok(Slice(data, pos, pos + n), pos + n)

\* The rounds of the loop of readVaruint from shift 56 on.  Only a byte of
\* payload 0 passes the guard there, so the loop runs over the bytes 0x80
\* that follow and ends at the first other byte, or at the end of the data:
\* the rounds are taken together, the shift of the last one deciding
\* whether 0 * 2 ** shift has been NaN.
ZerosEnd(data, pos) ==
  CHOOSE p \in pos..Len(data) :
    /\ p = Len(data) \/ data[p + 1] # 128
    /\ \A q \in pos..(p - 1) : data[q + 1] = 128

readVaruintZeros(data, pos, value, shift) ==
  IF pos = NaN THEN Ok(NumAddShifted(value, 0, shift), NaN)
  ELSE Then(ZerosEnd(data, pos), LAMBDA p :
    IF p >= Len(data) THEN Fail(EOF)
    ELSE IF data[p + 1] % 128 > 0 THEN Fail("Varuint overflow")
    ELSE Ok(NumAddShifted(value, 0, shift + 7 * (p - pos)), p + 1))

RECURSIVE readVaruintLoop(_, _, _, _)
readVaruintLoop(data, pos, value, shift) ==
  LET b == readByte(data, pos) IN
  IF shift >= 56 THEN readVaruintZeros(data, pos, value, shift)
  ELSE IF ~b.ok THEN b
  ELSE LET byte == b.val
           payload == IF byte = Undefined THEN 0 ELSE byte % 128
       IN  IF shift >= 56 /\ payload > 0 THEN Fail("Varuint overflow")
           ELSE IF shift >= 49 /\ payload > 15 THEN Fail("Varuint overflow")
           ELSE LET value2 == NumAddShifted(value, payload, shift) IN
                IF byte < 128 THEN Ok(value2, b.pos)
                ELSE readVaruintLoop(data, b.pos, value2, shift + 7)

readVaruint(data, pos) == readVaruintLoop(data, pos, NumOf(0), 0)

MAX_VARBYTES == 1048576

\* A cap that also rejects the largest length.
readVarbytesBelowCap(data, pos) ==
  Try(readVaruint(data, pos), LAMBDA len :
    IF NumGreater(len.val, MAX_VARBYTES - 1)
    THEN Fail("Varbytes length exceeds 1 MB")
    ELSE readBytes(data, len.pos, NumSmall(len.val)))

readVarbytes(data, pos) ==
  Try(readVaruint(data, pos), LAMBDA len :
    IF NumGreater(len.val, MAX_VARBYTES)
    THEN Fail("Varbytes length exceeds 1 MB")
    ELSE readBytes(data, len.pos, NumSmall(len.val)))

\* ------------------------------------------------------------------------
\* parser.ts: the tree
\* ------------------------------------------------------------------------

MAX_DEPTH == 256

Node(atts, ops) == [attestations |-> atts, ops |-> ops]

parseHashOp(tag) ==
  LET op == TAG_TO_HASH_OP(tag) IN
  IF op = "" THEN Fail("Unknown hash operation tag") ELSE Ok(op, 0)

OpData(type, r) ==
  IF r.ok THEN Ok([type |-> type, data |-> r.val], r.pos) ELSE r

parseOperation(data, pos) ==
  Try(readByte(data, pos), LAMBDA t :
    LET tag == t.val IN
    CASE tag = TAG_APPEND    -> OpData("append", readVarbytes(data, t.pos))
      [] tag = TAG_PREPEND   -> OpData("prepend", readVarbytes(data, t.pos))
      [] tag = TAG_REVERSE   -> Ok([type |-> "reverse"], t.pos)
      [] tag = TAG_HEXLIFY   -> Ok([type |-> "hexlify"], t.pos)
      [] tag = TAG_SHA256    -> Ok([type |-> "sha256"], t.pos)
      [] tag = TAG_SHA1      -> Ok([type |-> "sha1"], t.pos)
      [] tag = TAG_RIPEMD160 -> Ok([type |-> "ripemd160"], t.pos)
      [] tag = TAG_KECCAK256 -> Ok([type |-> "keccak256"], t.pos)
      [] tag = Undefined     -> Fail("TypeError")
      [] OTHER -> Fail("Unknown operation tag"))

\* Read a varuint from a standalone byte slice.
varuintFromSlice(data) == readVaruint(data, 0)

HeightAtt(type, payload, pos) ==
  Try(varuintFromSlice(payload), LAMBDA h :
    Ok([type |-> type, height |-> h.val], pos))

parseAttestation(data, pos) ==
  Try(readBytes(data, pos, 8), LAMBDA tag :
  Try(readVarbytes(data, tag.pos), LAMBDA payload :
    IF constantTimeEqual(tag.val, ATT_TAG_BITCOIN)
      THEN HeightAtt("bitcoin", payload.val, payload.pos)
    ELSE IF constantTimeEqual(tag.val, ATT_TAG_LITECOIN)
      THEN HeightAtt("litecoin", payload.val, payload.pos)
    ELSE IF constantTimeEqual(tag.val, ATT_TAG_ETHEREUM)
      THEN HeightAtt("ethereum", payload.val, payload.pos)
    ELSE IF constantTimeEqual(tag.val, ATT_TAG_PENDING)
      THEN Try(readVarbytes(payload.val, 0), LAMBDA uriBytes :
             Ok([type |-> "pending", uri |-> TextDecode(uriBytes.val)],
                payload.pos))
    ELSE Ok([type |-> "unknown", tag |-> tag.val, payload |-> payload.val],
            payload.pos)))

RECURSIVE parseTimestamp(_, _, _)
RECURSIVE parseTimestampBranch(_, _, _, _)
RECURSIVE parseForks(_, _, _, _)

\* One branch, added to the node being built (r.val is the node so far).
parseTimestampBranch(data, pos, node, depth) ==
  Try(peek(data, pos), LAMBDA tag :
    IF tag.val = TAG_ATTESTATION
    THEN Try(parseAttestation(data, pos + 1), LAMBDA att :
           Ok(Node(Append(node.attestations, att.val), node.ops), att.pos))
    ELSE Try(parseOperation(data, pos), LAMBDA op :
         Try(parseTimestamp(data, op.pos, depth + 1), LAMBDA child :
           Ok(Node(node.attestations,
                   Append(node.ops, <<op.val, child.val>>)),
              child.pos))))

\* The while loop of parseTimestamp followed by its final branch.
parseForks(data, pos, node, depth) ==
  IF remaining(data, pos) > 0 /\ data[pos + 1] = TAG_FORK
  THEN Try(parseTimestampBranch(data, pos + 1, node, depth), LAMBDA b :
         parseForks(data, b.pos, b.val, depth))
  ELSE IF remaining(data, pos) > 0
       THEN parseTimestampBranch(data, pos, node, depth)
       ELSE Ok(node, pos)

parseTimestamp(data, pos, depth) ==
  IF depth > MAX_DEPTH THEN Fail("Timestamp tree exceeds maximum depth")
  ELSE parseForks(data, pos, Node(<<>>, <<>>), depth)

parseTimestampFromBytes(data) == parseTimestamp(data, 0, 0)

parseOts(data) ==
  Try(readBytes(data, 0, Len(HEADER_MAGIC)), LAMBDA header :
    IF ~constantTimeEqual(header.val, HEADER_MAGIC)
    THEN Fail("Not a valid .ots file (bad magic header)")
    ELSE
  Try(readVaruint(data, header.pos), LAMBDA version :
    IF version.val # NumOf(1) THEN Fail("Unsupported .ots version")
    ELSE
  Try(readByte(data, version.pos), LAMBDA tag :
  Try(parseHashOp(tag.val), LAMBDA hashOp :
  Try(readBytes(data, tag.pos, HASH_OP_DIGEST_LEN(hashOp.val)),
      LAMBDA fileDigest :
  Try(parseTimestamp(data, fileDigest.pos, 0), LAMBDA timestamp :
    Ok([hashOp |-> hashOp.val, fileDigest |-> fileDigest.val,
        timestamp |-> timestamp.val], timestamp.pos)))))))

\* ------------------------------------------------------------------------
\* writer.ts
\* ------------------------------------------------------------------------

\* The loop of writeVaruint ends when v is 0.  NaN never is (Math.floor(NaN
\* / 128) is NaN): the loop pushes 0x80 for as long as the buffer can grow,
\* and the call does not return.  NEVER in the bytes of a writer stands for
\* that.
NEVER == -3

Returns(bytes) == \A i \in 1..Len(bytes) : bytes[i] # NEVER

RECURSIVE writeVaruint(_)
writeVaruint(val) ==
  LET v == NumDiv128(val) IN
  IF val = NumNaN THEN <<NEVER>>
  ELSE IF v # NumOf(0)
  THEN <<NumLow7(val) + 128>> \o writeVaruint(v)
  ELSE <<NumLow7(val)>>

writeVarbytes(data) == writeVaruint(NumOf(Len(data))) \o data

writeOperation(op) ==
  CASE op.type = "append"    -> <<TAG_APPEND>> \o writeVarbytes(op.data)
    [] op.type = "prepend"   -> <<TAG_PREPEND>> \o writeVarbytes(op.data)
    [] op.type = "sha256"    -> <<HASH_OP_TO_TAG("sha256")>>
    [] op.type = "sha1"      -> <<HASH_OP_TO_TAG("sha1")>>
    [] op.type = "ripemd160" -> <<HASH_OP_TO_TAG("ripemd160")>>
    [] op.type = "keccak256" -> <<HASH_OP_TO_TAG("keccak256")>>
    [] op.type = "reverse"   -> <<TAG_REVERSE>>
    [] op.type = "hexlify"   -> <<TAG_HEXLIFY>>

writeAttestation(att) ==
  <<TAG_ATTESTATION>> \o
  CASE att.type = "bitcoin" ->
         ATT_TAG_BITCOIN \o writeVarbytes(writeVaruint(att.height))
    [] att.type = "litecoin" ->
         ATT_TAG_LITECOIN \o writeVarbytes(writeVaruint(att.height))
    [] att.type = "ethereum" ->
         ATT_TAG_ETHEREUM \o writeVarbytes(writeVaruint(att.height))
    [] att.type = "pending" ->
         ATT_TAG_PENDING \o writeVarbytes(TextEncode(att.uri))
    [] att.type = "unknown" ->
         att.tag \o writeVarbytes(att.payload)

RECURSIVE writeTimestamp(_)
RECURSIVE writeAttestations(_, _, _)
RECURSIVE writeOps(_, _, _)

\* The first loop of writeTimestamp, from attestation i (1-based); the
\* branch index of attestation i is i - 1.
writeAttestations(ts, i, totalBranches) ==
  IF i > Len(ts.attestations) THEN <<>>
  ELSE (IF i - 1 < totalBranches - 1 THEN <<TAG_FORK>> ELSE <<>>)
         \o writeAttestation(ts.attestations[i])
         \o writeAttestations(ts, i + 1, totalBranches)

\* The second loop, from continuation j; its branch index is
\* attestations.length + j - 1.
writeOps(ts, j, totalBranches) ==
  IF j > Len(ts.ops) THEN <<>>
  ELSE (IF Len(ts.attestations) + j - 1 < totalBranches - 1
        THEN <<TAG_FORK>> ELSE <<>>)
         \o writeOperation(ts.ops[j][1])
         \o writeTimestamp(ts.ops[j][2])
         \o writeOps(ts, j + 1, totalBranches)

writeTimestamp(ts) ==
  LET totalBranches == Len(ts.attestations) + Len(ts.ops) IN
  writeAttestations(ts, 1, totalBranches) \o writeOps(ts, 1, totalBranches)

writeOts(ots) ==
  HEADER_MAGIC \o writeVaruint(NumOf(1))
    \o <<HASH_OP_TO_TAG(ots.hashOp)>> \o ots.fileDigest
    \o writeTimestamp(ots.timestamp)

\* ------------------------------------------------------------------------
\* crypto.ts: SHA-256 and SHA-1 (crypto.subtle.digest) and RIPEMD-160
\* (@noble/hashes), computed as FIPS 180-4 and the RIPEMD-160 paper define
\* them.  A 32-bit word is a pair <<hi, lo>> of 16-bit halves.
\* ------------------------------------------------------------------------

\* One bit of a ^ b for bytes a and b; p is the bit's weight.
XorBit(a, b, p) == (((a \div p) + (b \div p)) % 2) * p

XorByte(a, b) ==
  XorBit(a, b, 1) + XorBit(a, b, 2) + XorBit(a, b, 4) + XorBit(a, b, 8)
    + XorBit(a, b, 16) + XorBit(a, b, 32) + XorBit(a, b, 64)
    + XorBit(a, b, 128)

\* a ^ b for every pair of bytes, at index 256 * a + b + 1.
XorTable ==
  [k \in 1..65536 |-> XorByte((k - 1) \div 256, (k - 1) % 256)] \o <<>>

Xor16(a, b) ==
  XorTable[(a \div 256) * 256 + (b \div 256) + 1] * 256
    + XorTable[(a % 256) * 256 + (b % 256) + 1]

\* a & b = (a + b - (a ^ b)) / 2
And16(a, b) == (a + b - Xor16(a, b)) \div 2

WXor(x, y) == <<Xor16(x[1], y[1]), Xor16(x[2], y[2])>>

WXor3(x, y, z) == WXor(WXor(x, y), z)

WAnd(x, y) == <<And16(x[1], y[1]), And16(x[2], y[2])>>

\* x | y = x + y - (x & y)
WOr(x, y) ==
  <<x[1] + y[1] - And16(x[1], y[1]), x[2] + y[2] - And16(x[2], y[2])>>

WNot(x) == <<65535 - x[1], 65535 - x[2]>>

\* Addition modulo 2^32.
WAdd(x, y) ==
  <<(x[1] + y[1] + (x[2] + y[2]) \div 65536) % 65536,
    (x[2] + y[2]) % 65536>>

WAdd3(x, y, z) == WAdd(WAdd(x, y), z)

WAdd5(a, b, c, d, e) == WAdd(WAdd(WAdd(WAdd(a, b), c), d), e)

PowersOfTwo ==
  <<1, 2, 4, 8, 16, 32, 64, 128, 256, 512, 1024, 2048, 4096, 8192, 16384,
    32768, 65536>>

\* Rotation to the right by n bits, 0 < n < 16.
RotrSmall(x, n) ==
  <<(x[1] \div PowersOfTwo[n + 1])
      + (x[2] % PowersOfTwo[n + 1]) * PowersOfTwo[17 - n],
    (x[2] \div PowersOfTwo[n + 1])
      + (x[1] % PowersOfTwo[n + 1]) * PowersOfTwo[17 - n]>>

\* Rotation to the right by n bits, 0 < n < 32.
ROTR(x, n) ==
  IF n = 16 THEN <<x[2], x[1]>>
  ELSE IF n < 16 THEN RotrSmall(x, n)
  ELSE RotrSmall(<<x[2], x[1]>>, n - 16)

ROTL(x, n) == ROTR(x, 32 - n)

\* Shift to the right by n bits, 0 < n < 32.
SHR(x, n) ==
  IF n >= 16 THEN <<0, x[1] \div PowersOfTwo[n - 15]>>
  ELSE <<x[1] \div PowersOfTwo[n + 1],
         (x[2] \div PowersOfTwo[n + 1])
           + (x[1] % PowersOfTwo[n + 1]) * PowersOfTwo[17 - n]>>

Ch(x, y, z) == WXor(WAnd(x, y), WAnd(WNot(x), z))

Maj(x, y, z) == WXor3(WAnd(x, y), WAnd(x, z), WAnd(y, z))

\* The step f on the words v, v being computed before f starts.
Step(v, f(_)) == IF Len(v) > 0 THEN f(v) ELSE v

\* The padding: 0x80, zeros up to 56 modulo 64, and the length in bits as
\* 64 bits, most significant byte first or (RIPEMD-160) last.
PadZeros(msg) == [i \in 1..((119 - Len(msg)) % 64) |-> 0]

BitLength(msg) ==
  <<(Len(msg) \div 2097152) % 256, (Len(msg) \div 8192) % 256,
    (Len(msg) \div 32) % 256, (Len(msg) * 8) % 256>>

PadBigEndian(msg) ==
  msg \o <<128>> \o PadZeros(msg) \o <<0, 0, 0, 0>> \o BitLength(msg)

PadLittleEndian(msg) ==
  msg \o <<128>> \o PadZeros(msg)
    \o <<BitLength(msg)[4], BitLength(msg)[3], BitLength(msg)[2],
         BitLength(msg)[1]>> \o <<0, 0, 0, 0>>

\* The 16 words of the block of b that starts after byte at.
WordsBigEndian(b, at) ==
  [i \in 1..16 |-> <<b[at + 4 * i - 3] * 256 + b[at + 4 * i - 2],
                     b[at + 4 * i - 1] * 256 + b[at + 4 * i]>>] \o <<>>

WordsLittleEndian(b, at) ==
  [i \in 1..16 |-> <<b[at + 4 * i] * 256 + b[at + 4 * i - 1],
                     b[at + 4 * i - 2] * 256 + b[at + 4 * i - 3]>>] \o <<>>

WordBytes(x) == <<x[1] \div 256, x[1] % 256, x[2] \div 256, x[2] % 256>>

\* The digest: the words of h, each as four bytes.
DigestBigEndian(h) ==
  [i \in 1..(4 * Len(h)) |->
     WordBytes(h[(i + 3) \div 4])[((i - 1) % 4) + 1]] \o <<>>

DigestLittleEndian(h) ==
  [i \in 1..(4 * Len(h)) |->
     WordBytes(h[(i + 3) \div 4])[4 - ((i - 1) % 4)]] \o <<>>

\* h after the blocks of b, compress(h, b, at) taking h over one block.
Absorb(h0, b, compress(_, _, _)) ==
  LET h[k \in 0..(Len(b) \div 64)] ==
        IF k = 0 THEN h0 ELSE compress(h[k - 1], b, 64 * (k - 1))
  IN  h[Len(b) \div 64]

\* SHA-256 (FIPS 180-4, 6.2).
K256 ==
  << <<17034, 12184>>, <<28983, 17553>>, <<46528, 64463>>,
     <<59829, 56229>>, <<14678, 49755>>, <<23025, 4593>>, <<37439, 33444>>,
     <<43804, 24277>>, <<55303, 43672>>, <<4739, 23297>>, <<9265, 34238>>,
     <<21772, 32195>>, <<29374, 23924>>, <<32990, 45566>>, <<39900, 1703>>,
     <<49563, 61812>>, <<58523, 27073>>, <<61374, 18310>>, <<4033, 40390>>,
     <<9228, 41420>>, <<11753, 11375>>, <<19060, 33962>>, <<23728, 43484>>,
     <<30457, 35034>>, <<38974, 20818>>, <<43057, 50797>>,
     <<45059, 10184>>, <<48985, 32711>>, <<50912, 3059>>, <<54695, 37191>>,
     <<1738, 25425>>, <<5161, 10599>>, <<10167, 2693>>, <<11803, 8504>>,
     <<19756, 28156>>, <<21304, 3347>>, <<25866, 29524>>, <<30314, 2747>>,
     <<33218, 51502>>, <<37490, 11397>>, <<41663, 59553>>,
     <<43034, 26187>>, <<49739, 35696>>, <<51052, 20899>>,
     <<53650, 59417>>, <<54937, 1572>>, <<62478, 13701>>, <<4202, 41072>>,
     <<6564, 49430>>, <<7735, 27656>>, <<10056, 30540>>, <<13488, 48309>>,
     <<14620, 3251>>, <<20184, 43594>>, <<23452, 51791>>, <<26670, 28659>>,
     <<29839, 33518>>, <<30885, 25455>>, <<33992, 30740>>, <<36039, 520>>,
     <<37054, 65530>>, <<42064, 27883>>, <<48889, 41975>>, <<50801, 30962>> >>

H256 ==
  << <<27145, 58983>>, <<47975, 44677>>, <<15470, 62322>>,
     <<42319, 62778>>, <<20750, 21119>>, <<39685, 26764>>, <<8067, 55723>>,
     <<23520, 52505>> >>

BigSigma0(x) == WXor3(ROTR(x, 2), ROTR(x, 13), ROTR(x, 22))

BigSigma1(x) == WXor3(ROTR(x, 6), ROTR(x, 11), ROTR(x, 25))

SmallSigma0(x) == WXor3(ROTR(x, 7), ROTR(x, 18), SHR(x, 3))

SmallSigma1(x) == WXor3(ROTR(x, 17), ROTR(x, 19), SHR(x, 10))

\* The message schedule, one word longer: W[t] for t = Len(w).
Sha256Word(w) ==
  Append(w, WAdd(WAdd3(SmallSigma1(w[Len(w) - 1]), w[Len(w) - 6],
                       SmallSigma0(w[Len(w) - 14])),
                 w[Len(w) - 15]))

\* n more words of the schedule.
RECURSIVE Sha256Words(_, _)
Sha256Words(w, n) ==
  IF n = 0 THEN w
  ELSE Step(Sha256Word(w), LAMBDA a : Sha256Words(a, n - 1))

\* W[0..63] from the 16 words of the block.
Sha256Schedule(w) ==
  Step(Sha256Words(w, 16), LAMBDA a :
  Step(Sha256Words(a, 16), LAMBDA b : Sha256Words(b, 16)))

\* The working variables a..h after T1 and T2 are known.
Sha256Shift(s, t1, t2) ==
  <<WAdd(t1, t2), s[1], s[2], s[3], WAdd(s[4], t1), s[5], s[6], s[7]>>

\* Round t (1-based) on the working variables s.
Sha256Round(s, w, t) ==
  Sha256Shift(s,
    WAdd5(s[8], BigSigma1(s[5]), Ch(s[5], s[6], s[7]), K256[t], w[t]),
    WAdd(BigSigma0(s[1]), Maj(s[1], s[2], s[3])))

\* The n rounds after round t.
RECURSIVE Sha256RoundsAfter(_, _, _, _)
Sha256RoundsAfter(s, w, t, n) ==
  IF n = 0 THEN s
  ELSE Step(Sha256Round(s, w, t + 1), LAMBDA a :
         Sha256RoundsAfter(a, w, t + 1, n - 1))

\* The 64 rounds.
Sha256Rounds(s, w) ==
  Step(Sha256RoundsAfter(s, w, 0, 16), LAMBDA a :
  Step(Sha256RoundsAfter(a, w, 16, 16), LAMBDA b :
  Step(Sha256RoundsAfter(b, w, 32, 16), LAMBDA c :
    Sha256RoundsAfter(c, w, 48, 16))))

AddWords(h, s) == [i \in 1..Len(h) |-> WAdd(h[i], s[i])] \o <<>>

Sha256Compress(h, b, at) ==
  AddWords(h, Sha256Rounds(h, Sha256Schedule(WordsBigEndian(b, at))))

Sha256Digest(data) ==
  DigestBigEndian(Absorb(H256, PadBigEndian(data), Sha256Compress))

\* The files of the specifications below.
FILE_1 == <<72, 105>>

FILE_2 == <<66, 121, 101>>

\* The specifications hash a file, the digest of the file, the digest of
\* that, and so on down a chain of SHA256 operations, in state after state,
\* and stamp() hashes a nonce before the digest of a file.  The digests of
\* these messages are written down, as Sha256Digest computes them, and
\* looked up; any other message is hashed when it is met.
NONCE_ZEROS == [i \in 1..16 |-> 0]

NONCE_HIGH == [i \in 1..16 |-> 239 + i]

\* The digests of FILE_1 and the 271 digests below it, of FILE_2 and the 3
\* digests below it, and of the two nonces before the digest of each file.
Sha256Known ==
  <<
     <<54, 57, 239, 205, 8, 171, 178, 115, 177, 97, 158, 130, 231, 140, 41,
       167, 223, 2, 193, 5, 27, 24, 32, 233, 159, 195, 149, 220, 170, 51,
       38, 184>>,
     <<131, 252, 133, 73, 18, 56, 29, 230, 238, 123, 178, 176, 15, 40, 165,
       228, 145, 32, 210, 247, 209, 242, 209, 222, 142, 141, 154, 117, 130,
       228, 121, 54>>,
     <<189, 30, 34, 71, 84, 152, 198, 70, 150, 98, 131, 21, 250, 215, 131,
       199, 47, 231, 229, 153, 21, 144, 198, 142, 63, 119, 190, 173, 218,
       147, 134, 33>>,
     <<110, 175, 175, 59, 138, 112, 169, 61, 18, 246, 243, 229, 50, 43,
       173, 250, 164, 248, 216, 8, 119, 126, 134, 247, 68, 176, 103, 101,
       208, 139, 9, 243>>,
     <<29, 212, 55, 190, 211, 50, 139, 203, 227, 195, 150, 5, 97, 178, 58,
       250, 189, 4, 91, 171, 45, 65, 110, 192, 247, 87, 147, 143, 189, 1,
       185, 52>>,
     <<111, 112, 237, 64, 94, 111, 190, 68, 27, 144, 97, 124, 230, 86, 220,
       89, 105, 225, 15, 103, 55, 210, 55, 28, 96, 136, 144, 138, 227, 36,
       110, 7>>,
     <<6, 127, 137, 185, 231, 106, 110, 63, 33, 45, 11, 117, 132, 251, 204,
       188, 125, 180, 65, 83, 53, 11, 199, 133, 157, 181, 92, 100, 155,
       224, 176, 138>>,
     <<155, 4, 171, 171, 84, 206, 161, 112, 96, 25, 66, 194, 238, 159, 134,
       75, 3, 51, 145, 255, 56, 56, 195, 119, 128, 202, 208, 104, 154, 6,
       194, 34>>,
     <<87, 95, 66, 155, 16, 18, 232, 166, 117, 129, 232, 59, 221, 72, 26,
       129, 139, 67, 28, 46, 146, 99, 197, 23, 16, 40, 30, 20, 78, 10, 9,
       218>>,
     <<46, 169, 9, 103, 37, 197, 130, 157, 97, 248, 173, 227, 203, 40, 167,
       143, 85, 199, 16, 9, 142, 23, 187, 12, 60, 31, 3, 13, 212, 25, 219,
       220>>,
     <<248, 8, 177, 143, 126, 126, 5, 117, 248, 134, 18, 89, 132, 180, 146,
       81, 22, 162, 197, 152, 198, 184, 19, 122, 56, 27, 77, 227, 89, 249,
       145, 18>>,
     <<20, 117, 66, 75, 28, 181, 1, 128, 52, 183, 62, 177, 47, 132, 90, 80,
       191, 2, 44, 163, 247, 199, 51, 195, 95, 11, 180, 147, 108, 60, 235,
       8>>,
     <<77, 192, 77, 162, 117, 205, 183, 59, 113, 187, 53, 82, 181, 69, 215,
       4, 211, 66, 202, 234, 121, 135, 92, 228, 252, 241, 197, 64, 177,
       123, 66, 152>>,
     <<39, 17, 237, 113, 61, 61, 129, 196, 206, 4, 223, 197, 33, 161, 52,
       25, 199, 157, 239, 63, 149, 122, 85, 69, 212, 132, 205, 199, 100,
       106, 198, 90>>,
     <<252, 141, 237, 135, 120, 173, 220, 194, 50, 40, 24, 172, 224, 226,
       54, 121, 177, 73, 241, 223, 119, 1, 83, 240, 139, 90, 235, 148, 232,
       55, 53, 14>>,
     <<84, 107, 246, 89, 196, 30, 173, 128, 49, 11, 236, 57, 247, 238, 73,
       92, 123, 221, 128, 252, 35, 8, 181, 194, 181, 174, 50, 235, 194, 95,
       139, 114>>,
     <<54, 83, 34, 49, 70, 12, 154, 7, 103, 138, 98, 147, 96, 90, 215, 42,
       81, 36, 127, 172, 106, 56, 81, 90, 132, 42, 157, 54, 160, 132, 205,
       73>>,
     <<103, 58, 208, 91, 55, 111, 68, 165, 6, 65, 147, 161, 242, 72, 123,
       241, 122, 185, 162, 0, 195, 8, 81, 254, 14, 199, 12, 22, 217, 183,
       161, 84>>,
     <<43, 226, 111, 146, 45, 201, 62, 202, 216, 179, 220, 248, 138, 117,
       58, 130, 243, 16, 80, 118, 173, 6, 254, 23, 43, 178, 67, 13, 63, 56,
       122, 49>>,
     <<2, 209, 168, 101, 219, 22, 133, 36, 124, 176, 230, 50, 50, 107, 38,
       206, 179, 104, 156, 253, 196, 199, 187, 186, 24, 44, 152, 178, 220,
       252, 55, 227>>,
     <<182, 83, 187, 226, 154, 8, 145, 239, 131, 84, 60, 35, 160, 59, 254,
       55, 134, 178, 46, 198, 78, 99, 4, 176, 240, 100, 118, 4, 114, 163,
       74, 106>>,
     <<45, 100, 237, 226, 62, 234, 245, 28, 58, 74, 112, 42, 161, 125, 242,
       142, 243, 242, 66, 186, 179, 148, 110, 180, 233, 161, 70, 192, 98,
       22, 187, 194>>,
     <<61, 54, 182, 115, 0, 76, 245, 198, 139, 46, 194, 114, 123, 49, 127,
       12, 14, 226, 253, 216, 34, 56, 29, 66, 15, 96, 98, 44, 57, 98, 77,
       79>>,
     <<206, 50, 56, 120, 15, 110, 45, 246, 24, 213, 188, 83, 255, 101, 147,
       86, 241, 33, 108, 47, 199, 213, 64, 172, 95, 110, 179, 165, 9, 212,
       75, 63>>,
     <<171, 122, 237, 32, 101, 127, 204, 81, 205, 59, 18, 176, 61, 226, 84,
       95, 159, 72, 178, 170, 156, 76, 55, 175, 99, 216, 39, 60, 235, 29,
       59, 4>>,
     <<164, 35, 249, 66, 58, 199, 180, 79, 138, 117, 201, 86, 40, 147, 171,
       37, 113, 195, 174, 208, 39, 254, 239, 202, 8, 168, 209, 33, 19, 206,
       160, 229>>,
     <<64, 191, 71, 55, 248, 88, 3, 253, 84, 188, 46, 99, 217, 235, 25,
       192, 144, 5, 236, 110, 187, 44, 31, 237, 162, 127, 142, 150, 146,
       134, 162, 153>>,
     <<13, 223, 178, 194, 228, 143, 10, 54, 160, 193, 5, 190, 86, 81, 222,
       41, 172, 37, 111, 103, 53, 222, 9, 64, 39, 226, 208, 33, 195, 76,
       152, 217>>,
     <<173, 228, 17, 212, 227, 15, 169, 192, 79, 3, 194, 68, 104, 4, 44,
       64, 250, 209, 119, 133, 59, 119, 159, 94, 138, 162, 17, 211, 13, 9,
       200, 226>>,
     <<20, 84, 185, 241, 173, 119, 97, 145, 5, 191, 134, 117, 9, 158, 214,
       202, 173, 56, 208, 46, 249, 163, 255, 93, 109, 89, 120, 123, 146,
       69, 25, 165>>,
     <<74, 39, 175, 111, 63, 131, 213, 205, 214, 200, 87, 74, 83, 172, 17,
       21, 21, 9, 135, 105, 48, 150, 104, 105, 87, 154, 163, 132, 90, 218,
       143, 149>>,
     <<36, 22, 26, 125, 2, 188, 202, 32, 47, 140, 246, 149, 61, 216, 22,
       245, 170, 106, 72, 7, 115, 85, 236, 29, 26, 16, 182, 88, 210, 240,
       87, 80>>,
     <<191, 222, 170, 248, 141, 185, 210, 154, 146, 38, 9, 2, 219, 20, 58,
       226, 27, 36, 16, 165, 28, 124, 210, 61, 107, 96, 169, 243, 92, 64,
       74, 215>>,
     <<182, 173, 73, 140, 226, 164, 48, 178, 58, 252, 227, 245, 197, 62,
       179, 205, 55, 7, 151, 17, 68, 253, 233, 205, 133, 167, 39, 117, 219,
       187, 47, 112>>,
     <<34, 94, 171, 105, 43, 225, 240, 7, 130, 214, 2, 47, 234, 118, 128,
       26, 115, 12, 23, 169, 30, 239, 188, 157, 110, 202, 192, 177, 243,
       199, 51, 55>>,
     <<212, 198, 29, 48, 216, 181, 38, 23, 25, 1, 158, 208, 122, 220, 230,
       252, 209, 193, 107, 161, 255, 108, 150, 68, 120, 70, 85, 198, 97,
       238, 140, 203>>,
     <<234, 227, 239, 250, 221, 188, 179, 205, 225, 96, 37, 222, 155, 255,
       115, 59, 1, 187, 171, 178, 138, 236, 103, 140, 18, 183, 203, 145,
       129, 122, 216, 203>>,
     <<82, 205, 91, 138, 171, 230, 155, 209, 25, 20, 201, 132, 251, 124,
       31, 64, 1, 231, 58, 49, 250, 180, 67, 203, 44, 30, 106, 185, 238,
       21, 48, 227>>,
     <<41, 159, 27, 98, 99, 84, 100, 129, 125, 170, 187, 111, 43, 182, 163,
       235, 35, 128, 8, 32, 153, 106, 34, 177, 155, 177, 243, 188, 69, 210,
       172, 11>>,
     <<87, 29, 160, 153, 136, 19, 141, 83, 0, 196, 227, 246, 56, 96, 76,
       71, 146, 92, 238, 95, 141, 254, 53, 231, 184, 136, 150, 246, 228,
       55, 20, 220>>,
     <<19, 117, 111, 189, 150, 167, 53, 41, 94, 153, 216, 36, 3, 176, 77,
       205, 59, 104, 172, 204, 199, 69, 194, 191, 243, 41, 16, 125, 175,
       13, 165, 129>>,
     <<42, 132, 230, 105, 129, 127, 248, 244, 13, 138, 123, 85, 30, 93,
       123, 36, 213, 252, 29, 10, 147, 79, 240, 219, 139, 14, 51, 186, 73,
       186, 50, 201>>,
     <<67, 252, 158, 81, 200, 242, 215, 251, 72, 58, 227, 59, 87, 62, 208,
       146, 98, 214, 10, 60, 226, 114, 111, 52, 247, 250, 247, 189, 23, 22,
       209, 156>>,
     <<161, 196, 169, 136, 167, 12, 134, 190, 248, 224, 251, 145, 194, 205,
       101, 212, 33, 82, 164, 65, 144, 148, 85, 100, 160, 251, 126, 24, 44,
       254, 51, 212>>,
     <<119, 126, 78, 48, 109, 130, 137, 60, 83, 49, 72, 87, 80, 234, 35,
       15, 138, 16, 210, 8, 130, 47, 64, 219, 163, 248, 154, 128, 126, 151,
       127, 23>>,
     <<188, 79, 123, 74, 254, 200, 194, 135, 138, 252, 51, 72, 3, 215, 120,
       66, 253, 95, 218, 67, 127, 12, 219, 226, 93, 85, 173, 231, 85, 167,
       97, 72>>,
     <<103, 9, 170, 92, 243, 105, 47, 110, 154, 19, 17, 124, 203, 248, 28,
       118, 128, 41, 32, 146, 136, 14, 139, 207, 205, 121, 16, 125, 212,
       112, 102, 84>>,
     <<163, 217, 165, 147, 181, 193, 58, 57, 194, 241, 141, 52, 48, 94,
       233, 37, 25, 125, 104, 188, 236, 170, 183, 115, 219, 137, 250, 49,
       6, 98, 180, 123>>,
     <<232, 33, 195, 92, 25, 251, 60, 87, 38, 173, 75, 232, 48, 57, 233,
       204, 26, 238, 0, 7, 236, 2, 42, 108, 97, 9, 240, 151, 151, 75, 31,
       77>>,
     <<162, 189, 199, 188, 121, 186, 211, 206, 195, 132, 75, 191, 215, 44,
       141, 141, 230, 92, 25, 135, 66, 150, 141, 5, 99, 191, 227, 216, 20,
       240, 80, 38>>,
     <<123, 103, 78, 39, 193, 67, 114, 214, 183, 17, 125, 17, 35, 36, 37,
       205, 103, 171, 182, 91, 244, 43, 67, 216, 87, 90, 49, 201, 110, 211,
       63, 2>>,
     <<245, 237, 30, 12, 226, 255, 26, 121, 88, 157, 180, 110, 239, 184,
       59, 153, 247, 151, 203, 30, 63, 249, 175, 95, 111, 62, 116, 160, 24,
       219, 3, 103>>,
     <<45, 55, 166, 217, 93, 48, 139, 218, 226, 144, 217, 94, 25, 154, 240,
       35, 52, 148, 92, 7, 5, 109, 111, 11, 154, 173, 235, 14, 44, 115, 78,
       119>>,
     <<248, 79, 144, 146, 223, 115, 113, 215, 34, 20, 140, 250, 215, 55,
       135, 60, 61, 59, 134, 180, 226, 1, 184, 254, 245, 202, 13, 232, 55,
       19, 160, 173>>,
     <<238, 104, 121, 91, 40, 240, 134, 218, 125, 77, 253, 104, 67, 196,
       29, 37, 78, 146, 232, 11, 21, 174, 0, 91, 205, 38, 6, 186, 191, 108,
       20, 40>>,
     <<81, 77, 152, 19, 245, 240, 183, 248, 43, 222, 36, 5, 85, 118, 79,
       34, 208, 228, 24, 101, 164, 239, 230, 3, 86, 253, 184, 101, 241, 56,
       32, 4>>,
     <<197, 55, 141, 33, 228, 15, 61, 168, 186, 87, 142, 180, 168, 35, 177,
       204, 160, 140, 189, 145, 82, 135, 105, 160, 156, 118, 196, 10, 196,
       241, 253, 137>>,
     <<101, 32, 65, 117, 3, 94, 234, 63, 49, 57, 106, 66, 100, 118, 39, 28,
       231, 93, 38, 184, 226, 160, 202, 249, 199, 94, 97, 21, 199, 28, 92,
       166>>,
     <<154, 23, 154, 187, 181, 74, 93, 68, 149, 110, 239, 172, 177, 49,
       133, 173, 219, 210, 99, 18, 81, 99, 137, 6, 121, 69, 26, 56, 252,
       77, 156, 140>>,
     <<104, 152, 248, 32, 155, 0, 5, 204, 7, 37, 251, 120, 77, 254, 207,
       12, 51, 169, 178, 171, 224, 246, 21, 171, 184, 111, 28, 131, 225,
       85, 195, 72>>,
     <<143, 20, 196, 188, 15, 128, 255, 50, 133, 129, 143, 140, 40, 253,
       246, 39, 190, 131, 8, 132, 160, 12, 191, 120, 164, 223, 38, 64, 184,
       105, 133, 225>>,
     <<198, 183, 15, 196, 65, 83, 118, 129, 186, 14, 222, 4, 117, 13, 14,
       201, 221, 68, 164, 121, 120, 171, 239, 249, 36, 143, 159, 25, 146,
       49, 112, 179>>,
     <<250, 160, 96, 92, 215, 183, 16, 148, 73, 11, 19, 98, 17, 59, 255,
       54, 150, 149, 231, 46, 63, 252, 155, 6, 13, 95, 110, 249, 167, 160,
       115, 8>>,
     <<65, 222, 207, 218, 34, 91, 119, 160, 102, 188, 205, 183, 152, 162,
       238, 3, 239, 119, 68, 87, 5, 3, 19, 255, 50, 24, 142, 180, 235, 41,
       149, 239>>,
     <<205, 253, 71, 134, 193, 174, 40, 77, 88, 252, 137, 76, 59, 210, 226,
       92, 178, 61, 0, 161, 155, 135, 176, 191, 136, 36, 131, 14, 253, 37,
       14, 19>>,
     <<146, 237, 10, 78, 159, 22, 190, 237, 152, 12, 8, 241, 49, 183, 211,
       152, 45, 7, 250, 82, 19, 105, 241, 47, 116, 155, 198, 7, 0, 106, 96,
       172>>,
     <<250, 106, 177, 166, 128, 179, 39, 119, 226, 53, 141, 105, 96, 189,
       63, 42, 248, 7, 43, 120, 32, 229, 38, 218, 0, 124, 146, 36, 195,
       218, 120, 210>>,
     <<21, 235, 198, 254, 156, 194, 232, 118, 32, 63, 28, 124, 117, 190,
       52, 123, 248, 33, 182, 184, 0, 56, 106, 106, 163, 183, 101, 77, 44,
       92, 251, 23>>,
     <<88, 21, 205, 153, 109, 14, 35, 9, 222, 178, 76, 228, 95, 97, 235,
       138, 175, 181, 115, 240, 218, 177, 124, 78, 0, 78, 210, 35, 203, 62,
       187, 53>>,
     <<229, 181, 189, 160, 126, 223, 99, 120, 72, 9, 42, 133, 199, 230, 45,
       2, 134, 20, 149, 213, 67, 206, 245, 63, 251, 146, 5, 44, 175, 136,
       239, 223>>,
     <<54, 157, 196, 115, 94, 91, 101, 173, 245, 149, 131, 223, 182, 3,
       255, 103, 207, 134, 90, 29, 179, 1, 120, 191, 76, 234, 35, 151, 35,
       22, 7, 140>>,
     <<220, 117, 142, 136, 26, 162, 239, 179, 59, 115, 46, 19, 14, 59, 206,
       114, 123, 115, 51, 27, 59, 185, 161, 22, 42, 112, 183, 238, 132,
       250, 226, 216>>,
     <<145, 51, 55, 176, 109, 137, 227, 38, 83, 72, 144, 254, 107, 60, 206,
       117, 168, 146, 223, 118, 175, 60, 178, 140, 217, 3, 13, 115, 90,
       213, 214, 22>>,
     <<93, 218, 119, 77, 74, 214, 189, 156, 211, 238, 215, 30, 175, 245,
       105, 222, 143, 244, 38, 9, 57, 240, 23, 54, 186, 228, 140, 39, 151,
       176, 81, 146>>,
     <<1, 178, 123, 123, 222, 191, 29, 141, 217, 141, 62, 237, 129, 49,
       136, 47, 80, 54, 165, 186, 243, 89, 20, 39, 63, 61, 215, 238, 146,
       68, 145, 91>>,
     <<219, 253, 177, 201, 20, 160, 234, 241, 218, 103, 207, 2, 14, 127,
       136, 184, 139, 88, 234, 228, 163, 0, 113, 13, 141, 87, 210, 36, 99,
       78, 129, 93>>,
     <<186, 49, 196, 222, 70, 225, 231, 191, 17, 45, 72, 243, 122, 105,
       195, 21, 46, 13, 248, 116, 71, 149, 239, 199, 230, 85, 50, 79, 144,
       102, 149, 196>>,
     <<147, 250, 36, 133, 231, 239, 209, 119, 242, 249, 69, 10, 150, 17,
       100, 144, 119, 97, 191, 100, 62, 68, 24, 214, 182, 145, 255, 169,
       85, 109, 229, 6>>,
     <<114, 175, 237, 109, 165, 12, 182, 96, 65, 89, 15, 119, 251, 157,
       117, 48, 160, 13, 12, 125, 198, 250, 81, 32, 18, 95, 91, 112, 215,
       72, 122, 153>>,
     <<36, 198, 66, 96, 213, 22, 127, 17, 86, 188, 177, 99, 80, 215, 220,
       44, 100, 242, 150, 6, 30, 125, 128, 96, 242, 91, 127, 68, 214, 100,
       162, 117>>,
     <<218, 57, 41, 227, 228, 126, 20, 175, 59, 247, 190, 34, 106, 229, 89,
       110, 110, 221, 32, 228, 16, 158, 118, 95, 213, 181, 172, 142, 85,
       242, 76, 121>>,
     <<12, 244, 69, 31, 89, 124, 33, 173, 81, 113, 216, 189, 111, 230, 25,
       103, 61, 167, 197, 50, 71, 188, 33, 184, 215, 104, 175, 136, 223,
       42, 32, 175>>,
     <<1, 72, 46, 84, 116, 116, 230, 148, 105, 169, 187, 126, 147, 251,
       248, 219, 242, 231, 172, 118, 131, 43, 38, 48, 79, 93, 0, 61, 181,
       21, 123, 253>>,
     <<206, 31, 41, 60, 151, 143, 243, 59, 144, 255, 180, 112, 137, 171,
       118, 185, 23, 253, 27, 89, 160, 162, 246, 26, 162, 178, 6, 6, 77,
       89, 93, 146>>,
     <<225, 184, 16, 131, 180, 15, 73, 180, 204, 108, 75, 20, 171, 27, 84,
       7, 111, 218, 99, 39, 231, 111, 79, 240, 18, 163, 128, 244, 112, 178,
       162, 33>>,
     <<178, 84, 190, 26, 196, 220, 148, 118, 199, 222, 71, 121, 180, 25,
       242, 105, 218, 220, 9, 231, 66, 56, 100, 12, 83, 129, 178, 75, 245,
       226, 7, 8>>,
     <<244, 35, 82, 64, 94, 76, 15, 230, 171, 112, 48, 197, 83, 9, 160, 41,
       62, 50, 187, 15, 81, 100, 165, 140, 50, 111, 38, 131, 162, 41, 108,
       126>>,
     <<136, 192, 154, 151, 24, 232, 26, 148, 248, 227, 214, 205, 172, 212,
       94, 27, 167, 185, 89, 154, 72, 237, 250, 213, 10, 117, 176, 241,
       113, 104, 117, 152>>,
     <<23, 181, 203, 156, 199, 37, 159, 5, 26, 7, 206, 102, 71, 19, 116,
       137, 124, 254, 33, 28, 123, 129, 22, 147, 66, 92, 206, 250, 102,
       240, 222, 255>>,
     <<241, 26, 63, 238, 126, 11, 86, 90, 29, 143, 181, 135, 202, 152, 92,
       206, 254, 175, 213, 39, 105, 180, 63, 113, 24, 144, 146, 66, 111,
       145, 3, 223>>,
     <<54, 52, 52, 189, 155, 89, 42, 255, 98, 253, 185, 191, 181, 126, 200,
       255, 247, 148, 18, 219, 30, 28, 177, 231, 29, 19, 68, 205, 218, 16,
       57, 200>>,
     <<72, 104, 190, 156, 90, 138, 219, 139, 47, 175, 183, 60, 116, 233,
       158, 212, 146, 117, 162, 100, 206, 151, 77, 250, 21, 50, 128, 171,
       93, 156, 64, 231>>,
     <<67, 248, 169, 169, 235, 13, 67, 130, 127, 10, 234, 94, 245, 240,
       220, 199, 141, 125, 19, 49, 186, 125, 117, 3, 161, 202, 62, 255, 13,
       195, 151, 138>>,
     <<113, 210, 78, 40, 124, 90, 21, 79, 166, 231, 57, 170, 36, 207, 208,
       25, 2, 225, 227, 212, 174, 156, 209, 165, 144, 184, 111, 81, 163,
       215, 10, 72>>,
     <<46, 216, 31, 68, 55, 165, 66, 233, 214, 136, 228, 31, 173, 89, 235,
       249, 185, 79, 137, 238, 80, 202, 38, 124, 250, 128, 140, 140, 185,
       233, 29, 181>>,
     <<107, 162, 242, 148, 252, 139, 119, 251, 42, 200, 147, 59, 181, 232,
       161, 14, 187, 48, 80, 66, 163, 37, 200, 90, 38, 178, 179, 166, 184,
       105, 100, 217>>,
     <<15, 80, 245, 210, 193, 137, 56, 242, 197, 197, 207, 9, 181, 72, 58,
       161, 184, 8, 174, 5, 223, 213, 65, 51, 125, 35, 190, 112, 198, 8,
       253, 75>>,
     <<161, 145, 26, 87, 158, 159, 88, 105, 221, 121, 135, 233, 244, 213,
       29, 187, 34, 108, 25, 22, 102, 137, 134, 215, 171, 83, 165, 116,
       181, 34, 196, 135>>,
     <<254, 124, 242, 218, 42, 233, 51, 69, 151, 147, 186, 123, 180, 8,
       213, 25, 197, 185, 112, 199, 196, 23, 189, 191, 250, 85, 194, 130,
       30, 226, 231, 222>>,
     <<218, 244, 85, 66, 2, 134, 22, 66, 32, 183, 89, 255, 237, 175, 188,
       134, 41, 82, 81, 221, 61, 182, 148, 133, 65, 19, 144, 160, 58, 243,
       60, 152>>,
     <<95, 252, 185, 221, 164, 252, 25, 1, 51, 65, 22, 176, 92, 107, 137,
       42, 66, 22, 215, 46, 50, 211, 143, 212, 192, 202, 239, 70, 3, 135,
       210, 183>>,
     <<253, 122, 25, 132, 150, 80, 61, 208, 17, 24, 58, 10, 83, 110, 128,
       216, 236, 71, 6, 81, 198, 114, 72, 144, 226, 141, 139, 242, 69, 209,
       194, 113>>,
     <<138, 216, 72, 149, 23, 177, 75, 76, 208, 228, 139, 182, 119, 94,
       135, 20, 201, 70, 81, 38, 116, 250, 192, 240, 217, 91, 243, 161,
       131, 48, 156, 253>>,
     <<165, 78, 56, 89, 170, 170, 138, 24, 214, 122, 114, 137, 140, 59,
       137, 157, 87, 23, 183, 211, 205, 58, 2, 119, 4, 122, 155, 250, 37,
       155, 93, 0>>,
     <<61, 150, 125, 38, 215, 79, 73, 122, 201, 84, 82, 37, 106, 77, 176,
       135, 72, 219, 59, 144, 182, 108, 238, 141, 137, 73, 27, 233, 134,
       230, 209, 253>>,
     <<21, 84, 253, 96, 248, 15, 63, 145, 48, 240, 210, 213, 25, 26, 119,
       48, 156, 133, 66, 13, 45, 165, 162, 14, 100, 8, 255, 86, 114, 246,
       43, 224>>,
     <<156, 229, 215, 207, 122, 141, 6, 116, 54, 107, 97, 187, 1, 212, 107,
       107, 32, 29, 155, 169, 170, 61, 106, 105, 254, 141, 46, 42, 236, 85,
       219, 93>>,
     <<124, 1, 20, 43, 199, 159, 165, 172, 227, 216, 247, 240, 146, 67,
       244, 58, 91, 228, 90, 70, 69, 122, 188, 146, 197, 190, 63, 214, 230,
       194, 84, 66>>,
     <<242, 188, 220, 70, 25, 173, 158, 53, 117, 150, 216, 86, 3, 163, 42,
       207, 78, 91, 42, 16, 242, 195, 232, 223, 12, 189, 153, 228, 63, 231,
       218, 251>>,
     <<116, 47, 188, 220, 20, 198, 18, 54, 13, 53, 122, 214, 213, 199, 97,
       71, 23, 107, 181, 170, 160, 30, 227, 105, 130, 91, 175, 237, 134,
       203, 172, 205>>,
     <<9, 158, 50, 170, 249, 204, 66, 156, 130, 125, 111, 248, 132, 186,
       174, 36, 144, 81, 133, 16, 27, 79, 94, 99, 148, 123, 212, 2, 236,
       227, 140, 61>>,
     <<96, 232, 224, 101, 216, 220, 202, 245, 144, 58, 5, 227, 204, 60, 40,
       61, 177, 198, 152, 149, 213, 53, 82, 51, 62, 196, 58, 137, 187, 46,
       82, 133>>,
     <<143, 180, 230, 213, 151, 243, 194, 160, 203, 212, 94, 94, 48, 187,
       198, 227, 147, 136, 69, 185, 203, 219, 11, 69, 44, 117, 193, 114,
       156, 50, 59, 248>>,
     <<160, 57, 243, 31, 202, 53, 140, 101, 134, 72, 163, 222, 12, 99, 153,
       220, 240, 191, 94, 85, 151, 117, 12, 162, 12, 77, 172, 1, 112, 143,
       96, 190>>,
     <<198, 201, 101, 254, 28, 28, 82, 62, 215, 235, 82, 57, 224, 10, 177,
       164, 27, 217, 89, 70, 216, 20, 208, 100, 250, 86, 115, 91, 200, 165,
       199, 217>>,
     <<152, 80, 241, 198, 153, 146, 41, 254, 18, 56, 72, 152, 5, 247, 197,
       152, 248, 203, 202, 207, 59, 23, 32, 181, 232, 244, 81, 198, 57,
       235, 223, 205>>,
     <<157, 231, 5, 99, 5, 48, 235, 60, 232, 148, 7, 57, 242, 99, 7, 141,
       107, 244, 62, 69, 33, 250, 57, 231, 34, 214, 176, 110, 148, 244, 68,
       112>>,
     <<51, 174, 71, 198, 134, 239, 181, 34, 59, 89, 2, 94, 134, 136, 148,
       154, 222, 120, 92, 241, 232, 231, 22, 95, 14, 68, 235, 169, 181,
       190, 43, 27>>,
     <<167, 149, 203, 90, 18, 107, 236, 17, 162, 198, 147, 161, 129, 21,
       51, 245, 118, 229, 9, 235, 157, 88, 85, 174, 129, 233, 39, 44, 169,
       26, 247, 140>>,
     <<178, 30, 65, 238, 225, 59, 60, 243, 28, 155, 47, 29, 143, 65, 184,
       187, 185, 99, 117, 204, 87, 53, 16, 104, 74, 123, 135, 208, 234,
       204, 218, 217>>,
     <<154, 34, 232, 60, 2, 189, 89, 95, 10, 83, 182, 202, 156, 208, 248,
       115, 21, 48, 245, 190, 135, 115, 101, 70, 62, 47, 51, 71, 241, 79,
       38, 6>>,
     <<155, 189, 38, 202, 47, 134, 67, 206, 2, 158, 2, 232, 230, 154, 98,
       193, 82, 218, 85, 183, 206, 175, 252, 94, 202, 253, 2, 196, 210,
       244, 97, 175>>,
     <<161, 152, 33, 236, 191, 175, 185, 83, 70, 94, 14, 155, 149, 186,
       182, 121, 149, 23, 158, 67, 2, 182, 34, 21, 96, 56, 253, 187, 37,
       170, 175, 137>>,
     <<71, 135, 140, 52, 232, 12, 161, 111, 181, 227, 184, 131, 168, 249,
       90, 239, 50, 16, 204, 7, 167, 26, 183, 59, 202, 232, 97, 171, 162,
       32, 249, 105>>,
     <<147, 171, 152, 236, 196, 145, 31, 29, 157, 4, 253, 21, 29, 166, 44,
       90, 11, 247, 70, 97, 217, 142, 70, 214, 136, 136, 244, 196, 21, 234,
       171, 36>>,
     <<22, 121, 161, 31, 243, 44, 141, 38, 3, 57, 99, 17, 50, 184, 190, 52,
       90, 35, 185, 156, 158, 104, 223, 64, 122, 18, 220, 84, 54, 102, 25,
       124>>,
     <<143, 102, 120, 123, 96, 203, 238, 82, 85, 235, 121, 26, 207, 100,
       153, 239, 121, 140, 145, 181, 152, 116, 75, 144, 230, 73, 51, 203,
       135, 240, 149, 144>>,
     <<243, 217, 172, 128, 52, 66, 87, 59, 181, 91, 154, 186, 29, 238, 189,
       165, 237, 82, 58, 33, 8, 159, 209, 232, 166, 63, 115, 130, 110, 44,
       60, 98>>,
     <<106, 172, 44, 194, 238, 231, 61, 227, 234, 129, 58, 56, 240, 184,
       215, 131, 182, 107, 188, 75, 189, 119, 90, 31, 143, 53, 74, 22, 196,
       33, 85, 77>>,
     <<10, 24, 112, 28, 231, 145, 132, 128, 74, 224, 67, 254, 242, 185, 59,
       197, 254, 126, 232, 122, 81, 178, 168, 28, 230, 169, 159, 23, 81,
       140, 118, 242>>,
     <<37, 8, 70, 225, 199, 109, 158, 21, 81, 87, 20, 71, 147, 171, 82, 2,
       23, 136, 106, 83, 114, 117, 106, 110, 91, 246, 122, 238, 188, 113,
       176, 175>>,
     <<204, 15, 148, 172, 133, 0, 223, 122, 138, 250, 49, 129, 105, 24,
       239, 178, 138, 231, 3, 216, 32, 204, 188, 197, 99, 250, 94, 34, 120,
       79, 15, 161>>,
     <<47, 67, 190, 191, 89, 215, 35, 59, 42, 42, 103, 216, 151, 107, 27,
       242, 102, 61, 136, 171, 131, 193, 43, 220, 70, 255, 95, 190, 180,
       99, 3, 53>>,
     <<226, 161, 60, 217, 170, 190, 223, 54, 180, 10, 223, 15, 245, 52,
       243, 109, 139, 197, 156, 6, 208, 0, 27, 253, 25, 122, 87, 183, 233,
       166, 2, 126>>,
     <<105, 202, 192, 14, 199, 193, 53, 50, 39, 32, 95, 155, 145, 247, 15,
       88, 234, 125, 216, 47, 76, 105, 239, 227, 15, 146, 85, 194, 106,
       179, 87, 101>>,
     <<171, 26, 186, 123, 52, 168, 115, 169, 118, 118, 157, 78, 227, 176,
       21, 252, 184, 240, 178, 24, 237, 137, 33, 247, 180, 75, 111, 167,
       215, 216, 37, 165>>,
     <<236, 175, 183, 156, 252, 26, 158, 185, 203, 64, 88, 162, 20, 196,
       250, 252, 22, 131, 143, 165, 70, 13, 47, 17, 85, 133, 131, 20, 4,
       133, 31, 94>>,
     <<169, 235, 223, 199, 56, 113, 173, 138, 56, 100, 146, 172, 131, 28,
       226, 63, 167, 12, 129, 200, 7, 90, 38, 131, 244, 74, 65, 247, 132,
       190, 194, 235>>,
     <<52, 189, 173, 53, 232, 198, 185, 118, 41, 97, 207, 165, 58, 138,
       175, 1, 239, 242, 156, 246, 234, 171, 239, 126, 79, 227, 25, 100,
       176, 48, 103, 119>>,
     <<156, 231, 180, 51, 57, 151, 216, 226, 86, 124, 176, 59, 179, 136,
       244, 254, 228, 92, 96, 1, 199, 111, 75, 154, 205, 49, 169, 44, 204,
       149, 42, 24>>,
     <<32, 235, 226, 115, 112, 153, 132, 118, 188, 238, 48, 38, 246, 77,
       211, 197, 182, 208, 222, 63, 134, 157, 98, 227, 226, 142, 212, 38,
       27, 164, 211, 12>>,
     <<137, 25, 190, 222, 208, 130, 62, 197, 85, 238, 94, 181, 135, 255,
       21, 105, 155, 28, 4, 102, 161, 146, 106, 76, 136, 102, 159, 165, 97,
       129, 212, 36>>,
     <<219, 86, 183, 131, 40, 216, 19, 34, 173, 150, 220, 80, 137, 9, 48,
       249, 172, 9, 159, 80, 86, 217, 68, 32, 87, 176, 37, 36, 32, 254, 18,
       237>>,
     <<178, 81, 185, 125, 217, 104, 241, 50, 117, 56, 89, 211, 255, 20, 98,
       171, 8, 239, 41, 105, 164, 97, 60, 127, 67, 119, 10, 34, 11, 25,
       158, 85>>,
     <<205, 128, 225, 113, 100, 242, 24, 113, 78, 198, 129, 108, 186, 237,
       123, 204, 254, 108, 253, 197, 164, 131, 232, 235, 137, 143, 200,
       105, 47, 4, 124, 38>>,
     <<19, 8, 231, 51, 236, 185, 163, 18, 225, 53, 91, 222, 60, 167, 148,
       172, 142, 37, 49, 50, 11, 231, 9, 229, 208, 184, 35, 99, 90, 119,
       129, 7>>,
     <<131, 126, 54, 87, 55, 113, 103, 48, 251, 153, 208, 241, 112, 172,
       138, 119, 251, 233, 161, 206, 14, 185, 15, 1, 150, 109, 101, 17, 22,
       253, 39, 160>>,
     <<160, 167, 22, 78, 112, 224, 212, 52, 39, 99, 32, 161, 20, 101, 127,
       235, 84, 239, 59, 228, 99, 154, 169, 164, 233, 180, 236, 198, 188,
       231, 228, 36>>,
     <<4, 65, 107, 68, 71, 33, 220, 9, 117, 181, 191, 78, 2, 239, 157, 34,
       55, 161, 73, 57, 70, 115, 97, 89, 69, 240, 221, 250, 138, 148, 38,
       249>>,
     <<42, 108, 159, 180, 101, 112, 239, 214, 59, 146, 244, 31, 9, 22, 197,
       42, 1, 95, 227, 153, 204, 67, 50, 88, 152, 61, 48, 215, 16, 22, 48,
       252>>,
     <<70, 41, 110, 192, 38, 72, 93, 170, 228, 233, 172, 57, 164, 7, 129,
       177, 76, 119, 25, 141, 204, 247, 50, 91, 173, 59, 201, 224, 145,
       127, 195, 166>>,
     <<234, 211, 150, 202, 92, 109, 77, 159, 191, 235, 96, 212, 26, 152,
       127, 236, 188, 1, 184, 126, 9, 86, 138, 33, 109, 227, 198, 55, 117,
       95, 131, 115>>,
     <<92, 109, 28, 185, 52, 122, 238, 22, 251, 148, 220, 112, 78, 4, 53,
       34, 122, 25, 156, 228, 1, 171, 67, 121, 208, 220, 9, 224, 198, 185,
       96, 140>>,
     <<95, 62, 39, 73, 28, 103, 30, 96, 137, 86, 116, 11, 57, 22, 252, 219,
       154, 245, 153, 179, 218, 181, 145, 58, 42, 132, 105, 59, 11, 238,
       171, 169>>,
     <<120, 29, 83, 233, 113, 170, 121, 97, 178, 63, 255, 195, 22, 178,
       154, 179, 28, 196, 209, 140, 33, 8, 127, 137, 57, 135, 124, 139,
       129, 185, 62, 162>>,
     <<239, 136, 89, 190, 50, 209, 249, 29, 115, 110, 33, 66, 162, 127,
       139, 96, 210, 174, 149, 96, 186, 191, 83, 52, 59, 212, 51, 1, 65,
       29, 247, 216>>,
     <<196, 53, 239, 1, 40, 1, 137, 61, 80, 77, 71, 120, 122, 63, 100, 75,
       106, 130, 240, 149, 95, 73, 17, 148, 29, 210, 45, 29, 138, 144, 69,
       248>>,
     <<62, 69, 213, 77, 171, 225, 68, 101, 73, 82, 155, 180, 34, 143, 187,
       54, 157, 241, 248, 11, 123, 50, 55, 148, 248, 211, 237, 229, 16,
       151, 89, 181>>,
     <<19, 84, 123, 161, 120, 150, 191, 196, 110, 233, 57, 115, 255, 64,
       194, 28, 24, 245, 87, 39, 20, 224, 78, 178, 216, 251, 70, 77, 207,
       139, 142, 125>>,
     <<101, 80, 37, 90, 211, 131, 26, 200, 82, 219, 76, 7, 225, 38, 71,
       210, 106, 104, 129, 63, 145, 204, 251, 218, 213, 93, 186, 221, 168,
       75, 196, 48>>,
     <<196, 208, 252, 238, 33, 155, 148, 126, 216, 202, 4, 59, 32, 192,
       107, 119, 75, 50, 240, 7, 48, 113, 54, 246, 21, 149, 34, 120, 105,
       165, 185, 168>>,
     <<70, 216, 42, 193, 241, 97, 223, 9, 131, 88, 183, 98, 85, 66, 225,
       234, 42, 15, 227, 176, 62, 235, 202, 119, 124, 131, 72, 141, 112,
       187, 243, 151>>,
     <<198, 148, 78, 37, 46, 158, 11, 70, 250, 161, 231, 172, 212, 123,
       154, 54, 97, 212, 149, 41, 29, 156, 49, 22, 52, 252, 205, 198, 93,
       132, 203, 155>>,
     <<24, 53, 52, 162, 97, 161, 239, 235, 185, 142, 39, 200, 184, 146,
       109, 246, 156, 243, 99, 203, 177, 149, 188, 49, 204, 22, 223, 162,
       205, 112, 19, 39>>,
     <<100, 6, 189, 30, 16, 242, 238, 197, 151, 62, 101, 169, 44, 81, 239,
       110, 50, 10, 96, 138, 191, 246, 165, 120, 117, 66, 105, 216, 210,
       177, 165, 89>>,
     <<27, 186, 87, 134, 242, 59, 179, 148, 255, 214, 86, 169, 66, 74, 85,
       252, 238, 210, 86, 212, 3, 97, 5, 118, 107, 186, 222, 146, 94, 87,
       62, 236>>,
     <<19, 12, 254, 98, 52, 132, 197, 103, 92, 92, 47, 199, 26, 1, 69, 28,
       202, 60, 59, 35, 97, 144, 140, 72, 123, 221, 43, 154, 254, 235, 145,
       1>>,
     <<103, 22, 155, 8, 89, 5, 247, 68, 120, 9, 64, 242, 37, 244, 83, 230,
       94, 169, 154, 161, 10, 44, 91, 102, 88, 88, 226, 132, 51, 51, 4,
       225>>,
     <<221, 137, 149, 200, 114, 14, 223, 124, 209, 249, 229, 184, 7, 162,
       82, 70, 128, 254, 152, 236, 21, 140, 185, 209, 19, 5, 200, 36, 236,
       195, 118, 119>>,
     <<255, 10, 104, 136, 133, 175, 60, 224, 213, 182, 181, 230, 103, 168,
       208, 179, 17, 220, 90, 203, 5, 110, 159, 37, 183, 218, 82, 165, 139,
       43, 66, 5>>,
     <<188, 197, 174, 42, 248, 128, 81, 105, 41, 61, 226, 236, 232, 89,
       233, 144, 53, 131, 70, 93, 212, 217, 1, 116, 233, 248, 231, 39, 190,
       79, 6, 26>>,
     <<91, 113, 19, 145, 61, 208, 225, 139, 96, 248, 190, 41, 108, 70, 212,
       250, 88, 142, 163, 124, 237, 38, 92, 41, 181, 116, 93, 19, 210, 190,
       60, 76>>,
     <<73, 133, 160, 12, 120, 113, 150, 157, 199, 102, 24, 146, 175, 141,
       53, 108, 231, 0, 188, 8, 81, 205, 145, 216, 120, 134, 196, 113, 114,
       114, 176, 176>>,
     <<75, 113, 4, 119, 83, 4, 51, 81, 215, 200, 55, 11, 59, 27, 161, 34,
       239, 215, 197, 135, 21, 59, 44, 198, 167, 12, 12, 110, 6, 219, 231,
       22>>,
     <<70, 56, 81, 118, 27, 105, 1, 203, 230, 207, 239, 204, 226, 164, 230,
       217, 22, 133, 40, 86, 129, 109, 217, 164, 146, 236, 140, 196, 96,
       74, 117, 0>>,
     <<204, 73, 212, 44, 55, 138, 167, 190, 194, 66, 144, 184, 145, 209,
       152, 183, 193, 33, 177, 121, 27, 223, 123, 80, 111, 177, 67, 207,
       142, 171, 84, 29>>,
     <<144, 42, 153, 115, 137, 225, 172, 202, 245, 248, 147, 180, 170, 128,
       80, 2, 158, 17, 128, 43, 72, 210, 111, 20, 62, 120, 169, 254, 189,
       1, 30, 134>>,
     <<227, 68, 120, 68, 223, 156, 8, 80, 182, 1, 131, 73, 6, 177, 83, 222,
       74, 116, 63, 203, 111, 39, 29, 161, 148, 43, 40, 9, 10, 114, 59, 84>>,
     <<139, 22, 75, 159, 101, 102, 85, 184, 171, 23, 161, 180, 194, 91,
       185, 203, 0, 182, 184, 6, 72, 63, 14, 232, 93, 235, 214, 228, 232,
       53, 242, 227>>,
     <<152, 145, 109, 73, 130, 87, 184, 31, 193, 164, 91, 173, 69, 224,
       181, 133, 65, 22, 39, 90, 182, 136, 48, 163, 161, 23, 197, 2, 89, 8,
       162, 27>>,
     <<48, 134, 37, 230, 252, 137, 125, 11, 143, 130, 69, 115, 153, 111,
       40, 252, 106, 15, 163, 215, 104, 86, 77, 47, 136, 50, 247, 55, 31,
       12, 111, 49>>,
     <<56, 176, 177, 177, 174, 97, 161, 53, 180, 4, 174, 36, 215, 175, 139,
       201, 32, 216, 83, 35, 218, 14, 89, 204, 22, 30, 159, 85, 70, 111,
       92, 209>>,
     <<118, 237, 135, 119, 2, 254, 8, 130, 205, 193, 191, 215, 194, 37,
       222, 162, 21, 196, 21, 26, 65, 47, 139, 153, 178, 173, 64, 115, 165,
       189, 130, 164>>,
     <<248, 8, 237, 168, 171, 254, 125, 244, 169, 83, 117, 187, 209, 108,
       31, 225, 26, 235, 198, 215, 26, 210, 96, 96, 97, 189, 119, 152, 78,
       179, 51, 241>>,
     <<181, 205, 131, 4, 30, 118, 236, 121, 146, 244, 184, 82, 192, 210,
       149, 49, 234, 55, 74, 34, 32, 59, 251, 164, 43, 82, 42, 112, 99, 61,
       227, 17>>,
     <<102, 100, 191, 5, 114, 228, 162, 24, 116, 236, 94, 13, 29, 170, 90,
       171, 184, 112, 62, 194, 124, 167, 133, 37, 138, 208, 98, 15, 61,
       181, 145, 97>>,
     <<222, 87, 180, 172, 254, 216, 55, 245, 169, 239, 248, 69, 222, 164,
       158, 109, 95, 203, 251, 143, 207, 73, 217, 47, 156, 81, 77, 45, 36,
       225, 127, 167>>,
     <<136, 39, 125, 74, 58, 252, 212, 160, 200, 25, 73, 228, 57, 8, 35,
       168, 188, 199, 61, 195, 199, 119, 27, 245, 47, 200, 186, 198, 37,
       174, 28, 168>>,
     <<209, 42, 192, 139, 159, 171, 134, 249, 200, 214, 198, 233, 251, 123,
       105, 128, 183, 234, 235, 221, 9, 119, 187, 209, 216, 110, 91, 64,
       192, 220, 153, 131>>,
     <<170, 100, 101, 230, 226, 148, 59, 217, 120, 46, 95, 135, 216, 61,
       156, 82, 113, 173, 173, 181, 201, 177, 16, 25, 186, 14, 108, 149,
       56, 30, 53, 191>>,
     <<76, 197, 76, 6, 163, 195, 136, 172, 172, 81, 105, 150, 42, 237, 223,
       159, 66, 182, 93, 237, 228, 150, 75, 198, 140, 178, 242, 244, 169,
       56, 111, 227>>,
     <<6, 26, 220, 57, 25, 212, 91, 239, 76, 9, 219, 154, 126, 55, 24, 65,
       110, 214, 71, 139, 143, 109, 147, 227, 196, 129, 40, 248, 246, 97,
       71, 96>>,
     <<216, 196, 237, 57, 25, 14, 1, 236, 175, 131, 64, 184, 8, 78, 64, 29,
       221, 12, 61, 129, 224, 64, 37, 169, 63, 12, 216, 2, 193, 40, 14, 11>>,
     <<187, 4, 88, 177, 221, 99, 66, 187, 94, 189, 59, 86, 10, 49, 53, 86,
       228, 183, 76, 10, 150, 151, 159, 253, 154, 22, 159, 248, 112, 50,
       144, 105>>,
     <<253, 105, 63, 188, 153, 95, 52, 239, 188, 214, 255, 84, 20, 227,
       157, 119, 56, 70, 150, 113, 203, 200, 235, 173, 195, 106, 74, 196,
       168, 1, 94, 229>>,
     <<83, 52, 240, 55, 79, 220, 27, 196, 237, 220, 108, 170, 153, 94, 167,
       25, 229, 131, 145, 183, 95, 30, 187, 83, 92, 85, 177, 62, 181, 152,
       168, 221>>,
     <<85, 144, 168, 16, 100, 64, 4, 193, 177, 43, 181, 3, 107, 102, 48,
       238, 235, 185, 59, 206, 77, 29, 97, 79, 223, 228, 67, 157, 218, 16,
       4, 97>>,
     <<36, 114, 30, 125, 151, 12, 162, 55, 235, 200, 204, 221, 113, 222,
       238, 92, 251, 216, 54, 105, 27, 177, 213, 157, 54, 122, 48, 111,
       195, 18, 71, 117>>,
     <<217, 215, 70, 117, 213, 228, 230, 33, 199, 9, 139, 232, 122, 70, 42,
       100, 116, 198, 72, 220, 108, 239, 89, 78, 35, 90, 223, 80, 29, 202,
       90, 135>>,
     <<61, 133, 67, 105, 209, 220, 63, 81, 244, 98, 46, 221, 179, 44, 99,
       235, 104, 141, 70, 0, 56, 31, 252, 49, 153, 128, 102, 243, 171, 215,
       174, 219>>,
     <<169, 9, 234, 31, 180, 55, 247, 250, 45, 7, 160, 104, 203, 65, 82,
       145, 82, 18, 132, 232, 186, 136, 242, 93, 114, 216, 220, 92, 177,
       185, 68, 65>>,
     <<119, 204, 212, 24, 132, 53, 143, 83, 120, 146, 11, 246, 104, 205,
       127, 84, 66, 162, 25, 227, 67, 241, 78, 146, 121, 179, 162, 195, 17,
       23, 117, 93>>,
     <<36, 32, 100, 4, 166, 42, 235, 14, 86, 250, 225, 50, 68, 249, 22,
       188, 52, 95, 60, 239, 31, 101, 246, 16, 194, 104, 83, 136, 29, 122,
       228, 46>>,
     <<6, 66, 77, 243, 123, 210, 252, 80, 169, 193, 136, 82, 136, 8, 250,
       190, 156, 73, 210, 198, 86, 57, 77, 241, 230, 191, 229, 112, 138,
       69, 192, 78>>,
     <<143, 152, 161, 184, 50, 15, 10, 202, 141, 45, 112, 177, 115, 86, 4,
       192, 39, 103, 124, 246, 242, 203, 1, 10, 175, 250, 97, 159, 69, 102,
       179, 74>>,
     <<132, 138, 169, 50, 106, 197, 58, 67, 22, 26, 163, 107, 161, 172, 63,
       170, 227, 229, 15, 66, 58, 14, 95, 67, 239, 175, 164, 29, 75, 84,
       189, 250>>,
     <<170, 94, 58, 171, 233, 206, 194, 87, 174, 15, 240, 79, 104, 95, 207,
       93, 123, 142, 49, 137, 47, 215, 210, 243, 41, 49, 143, 141, 193, 34,
       186, 89>>,
     <<68, 17, 0, 123, 54, 223, 178, 152, 235, 176, 249, 71, 250, 143, 87,
       190, 180, 27, 203, 72, 252, 21, 101, 35, 255, 126, 152, 118, 100,
       97, 88, 29>>,
     <<56, 67, 193, 164, 105, 45, 106, 149, 74, 124, 10, 77, 58, 206, 183,
       34, 176, 109, 178, 156, 203, 93, 17, 117, 207, 219, 178, 46, 18,
       205, 20, 36>>,
     <<27, 176, 71, 227, 107, 35, 13, 192, 150, 127, 117, 201, 53, 163, 47,
       216, 170, 127, 194, 61, 109, 188, 134, 3, 195, 128, 54, 219, 13,
       172, 132, 83>>,
     <<127, 97, 201, 67, 26, 217, 120, 237, 227, 137, 26, 136, 88, 101,
       115, 184, 165, 135, 180, 231, 61, 76, 245, 37, 39, 4, 92, 18, 114,
       87, 74, 106>>,
     <<133, 18, 14, 40, 250, 4, 30, 136, 110, 143, 172, 181, 106, 35, 242,
       146, 35, 69, 48, 235, 45, 47, 41, 67, 14, 235, 93, 179, 44, 179, 57,
       80>>,
     <<148, 105, 244, 207, 112, 181, 137, 127, 97, 184, 82, 133, 132, 52,
       254, 35, 17, 135, 70, 132, 234, 43, 21, 69, 70, 22, 205, 233, 149,
       136, 70, 7>>,
     <<135, 14, 100, 236, 120, 164, 79, 227, 16, 135, 231, 29, 100, 75,
       184, 46, 224, 76, 25, 128, 157, 72, 163, 184, 133, 207, 105, 248,
       19, 12, 34, 29>>,
     <<119, 44, 37, 182, 133, 140, 161, 125, 158, 69, 92, 94, 169, 130, 23,
       86, 137, 213, 147, 39, 32, 212, 127, 221, 98, 240, 191, 37, 163, 15,
       248, 34>>,
     <<221, 246, 72, 170, 222, 60, 201, 158, 144, 228, 186, 237, 177, 40,
       97, 34, 182, 80, 108, 70, 61, 231, 57, 33, 24, 225, 155, 216, 152,
       219, 164, 37>>,
     <<25, 124, 227, 184, 136, 96, 105, 100, 183, 48, 0, 113, 67, 106, 0,
       202, 126, 134, 159, 11, 161, 106, 27, 54, 169, 0, 41, 243, 165, 234,
       86, 13>>,
     <<61, 33, 13, 239, 241, 105, 43, 73, 39, 223, 234, 95, 144, 140, 153,
       101, 72, 3, 132, 193, 1, 166, 51, 33, 215, 246, 79, 164, 209, 210,
       186, 76>>,
     <<135, 2, 212, 245, 134, 43, 254, 179, 190, 190, 230, 149, 67, 251,
       174, 200, 161, 67, 194, 205, 11, 83, 41, 244, 147, 17, 173, 116, 75,
       43, 148, 186>>,
     <<113, 129, 44, 13, 22, 160, 223, 149, 146, 156, 182, 27, 185, 171,
       100, 221, 67, 51, 158, 13, 80, 58, 32, 184, 245, 114, 247, 36, 122,
       235, 249, 71>>,
     <<231, 4, 79, 171, 106, 56, 69, 109, 78, 57, 198, 38, 232, 121, 9, 44,
       6, 167, 62, 245, 91, 116, 196, 55, 221, 70, 192, 199, 15, 141, 134,
       176>>,
     <<16, 226, 50, 152, 9, 81, 208, 192, 91, 1, 198, 235, 91, 104, 241,
       220, 108, 170, 21, 56, 83, 248, 146, 181, 250, 80, 28, 197, 80, 99,
       47, 246>>,
     <<139, 43, 39, 161, 52, 119, 175, 170, 29, 90, 155, 227, 68, 144, 224,
       249, 80, 200, 2, 207, 182, 146, 248, 200, 158, 251, 144, 187, 144,
       220, 202, 234>>,
     <<128, 195, 1, 176, 230, 34, 12, 227, 236, 166, 222, 139, 37, 166,
       166, 11, 131, 15, 206, 248, 7, 162, 98, 233, 77, 248, 221, 126, 19,
       39, 12, 58>>,
     <<35, 233, 83, 198, 199, 34, 126, 40, 115, 38, 95, 174, 2, 154, 176,
       184, 123, 31, 39, 190, 119, 132, 33, 232, 14, 239, 47, 43, 226, 223,
       6, 28>>,
     <<46, 52, 66, 167, 134, 97, 134, 39, 61, 9, 229, 189, 167, 129, 25, 1,
       89, 6, 101, 90, 111, 132, 253, 156, 177, 57, 68, 129, 14, 100, 151,
       137>>,
     <<2, 0, 247, 183, 135, 201, 202, 42, 107, 244, 167, 136, 1, 98, 241,
       163, 84, 29, 4, 11, 163, 250, 129, 151, 86, 58, 202, 46, 142, 182,
       45, 75>>,
     <<67, 90, 202, 127, 13, 197, 74, 155, 25, 194, 130, 189, 253, 183,
       104, 159, 149, 205, 81, 167, 90, 217, 61, 175, 226, 83, 65, 243,
       217, 228, 206, 128>>,
     <<9, 65, 45, 47, 26, 82, 47, 46, 194, 174, 235, 130, 202, 18, 166,
       210, 151, 249, 50, 85, 30, 112, 248, 172, 21, 154, 36, 109, 97, 253,
       117, 129>>,
     <<153, 5, 4, 164, 122, 224, 190, 59, 95, 197, 68, 55, 106, 113, 2,
       230, 139, 232, 199, 136, 156, 84, 148, 50, 44, 111, 185, 108, 208,
       160, 137, 188>>,
     <<82, 33, 237, 53, 233, 202, 123, 7, 249, 68, 18, 233, 195, 13, 66,
       192, 105, 234, 172, 175, 3, 79, 65, 4, 126, 116, 33, 113, 250, 112,
       68, 111>>,
     <<98, 156, 216, 68, 140, 8, 215, 78, 79, 208, 100, 27, 107, 83, 75,
       245, 241, 225, 143, 139, 158, 33, 132, 15, 117, 233, 206, 231, 147,
       229, 23, 199>>,
     <<77, 242, 63, 121, 226, 159, 134, 89, 54, 11, 28, 89, 71, 163, 89,
       176, 25, 78, 93, 226, 174, 132, 202, 86, 18, 223, 174, 128, 215,
       195, 131, 27>>,
     <<107, 9, 132, 90, 200, 169, 14, 205, 54, 146, 132, 112, 54, 172, 154,
       215, 218, 15, 72, 2, 193, 70, 72, 114, 112, 85, 97, 19, 176, 255,
       75, 144>>,
     <<115, 175, 34, 16, 89, 158, 139, 237, 41, 159, 30, 10, 69, 220, 241,
       225, 82, 166, 225, 107, 121, 66, 203, 7, 32, 167, 61, 45, 184, 166,
       66, 11>>,
     <<212, 160, 243, 174, 127, 114, 16, 253, 137, 46, 81, 28, 33, 179,
       108, 192, 17, 197, 176, 235, 222, 14, 27, 201, 79, 146, 11, 31, 110,
       64, 210, 117>>,
     <<184, 230, 220, 160, 216, 62, 59, 83, 65, 67, 245, 102, 253, 147,
       154, 211, 224, 17, 72, 113, 40, 28, 128, 113, 121, 57, 207, 24, 36,
       88, 130, 153>>,
     <<143, 99, 173, 61, 186, 80, 243, 24, 180, 22, 156, 161, 119, 0, 12,
       163, 158, 38, 255, 182, 108, 94, 243, 52, 112, 107, 11, 240, 157,
       38, 184, 165>>,
     <<229, 13, 201, 229, 94, 166, 211, 98, 182, 252, 109, 224, 210, 47,
       245, 218, 15, 204, 52, 167, 12, 45, 56, 15, 23, 147, 81, 165, 98,
       26, 195, 101>>,
     <<243, 93, 69, 132, 7, 68, 52, 167, 34, 121, 207, 47, 18, 43, 189, 99,
       229, 230, 240, 147, 154, 199, 81, 52, 155, 164, 164, 210, 147, 62,
       49, 81>>,
     <<171, 151, 137, 5, 245, 69, 242, 158, 16, 231, 196, 234, 25, 86, 145,
       248, 31, 65, 63, 198, 148, 60, 195, 117, 218, 2, 165, 181, 183, 162,
       59, 239>>,
     <<182, 11, 170, 164, 163, 94, 14, 48, 129, 91, 234, 86, 51, 152, 173,
       68, 74, 251, 242, 104, 14, 45, 83, 27, 201, 254, 49, 253, 229, 162,
       242, 14>>,
     <<124, 3, 191, 113, 209, 150, 31, 119, 25, 106, 1, 104, 175, 142, 177,
       133, 30, 42, 67, 19, 22, 125, 42, 49, 189, 29, 199, 139, 4, 95, 91,
       90>>,
     <<192, 249, 53, 238, 141, 16, 32, 96, 28, 46, 212, 205, 40, 162, 14,
       64, 233, 218, 249, 21, 55, 84, 152, 136, 222, 237, 137, 208, 198,
       10, 55, 41>>,
     <<29, 103, 16, 216, 70, 13, 101, 77, 50, 182, 186, 247, 222, 124, 68,
       132, 144, 236, 106, 202, 225, 203, 0, 200, 220, 34, 51, 85, 28, 237,
       14, 91>>,
     <<219, 55, 211, 189, 180, 113, 92, 131, 103, 216, 1, 37, 151, 117,
       217, 173, 185, 164, 196, 238, 210, 213, 81, 55, 185, 55, 53, 231,
       185, 45, 69, 166>>,
     <<33, 70, 183, 117, 158, 18, 201, 240, 4, 58, 228, 225, 91, 106, 141,
       207, 12, 156, 27, 177, 22, 251, 152, 230, 233, 163, 57, 175, 100,
       170, 33, 22>>,
     <<232, 173, 74, 33, 120, 42, 19, 52, 23, 90, 183, 107, 84, 183, 90,
       73, 238, 238, 157, 36, 212, 224, 210, 231, 75, 155, 223, 111, 119,
       234, 136, 86>>,
     <<149, 53, 65, 69, 35, 203, 135, 113, 126, 162, 241, 127, 5, 0, 247,
       227, 187, 161, 81, 18, 188, 135, 212, 104, 106, 137, 207, 12, 163,
       107, 200, 82>>,
     <<110, 253, 66, 36, 110, 218, 79, 55, 253, 249, 27, 90, 77, 133, 118,
       254, 194, 31, 19, 155, 148, 155, 18, 105, 167, 244, 58, 12, 144,
       144, 96, 90>>,
     <<17, 213, 247, 92, 202, 170, 97, 57, 52, 95, 168, 105, 100, 23, 137,
       74, 40, 250, 209, 140, 68, 188, 228, 140, 104, 124, 2, 181, 137, 22,
       179, 112>>,
     <<40, 243, 42, 3, 108, 174, 40, 160, 211, 159, 23, 153, 138, 153, 231,
       250, 121, 3, 23, 146, 39, 3, 227, 25, 68, 153, 62, 55, 188, 121,
       205, 65>>,
     <<90, 18, 164, 178, 28, 173, 109, 211, 40, 120, 35, 34, 250, 161, 12,
       239, 105, 140, 249, 217, 214, 71, 16, 169, 255, 45, 151, 188, 218,
       71, 147, 214>>,
     <<155, 237, 200, 32, 208, 138, 241, 167, 44, 166, 17, 139, 158, 233,
       68, 159, 151, 254, 163, 97, 145, 240, 74, 145, 193, 209, 178, 24,
       114, 194, 143, 216>>,
     <<16, 118, 178, 100, 7, 16, 226, 246, 253, 204, 140, 197, 122, 64, 63,
       85, 84, 49, 103, 188, 241, 110, 204, 153, 119, 146, 25, 226, 208,
       175, 62, 114>>,
     <<252, 246, 83, 127, 26, 159, 249, 16, 241, 218, 68, 140, 138, 188,
       165, 209, 104, 20, 43, 189, 232, 72, 29, 181, 243, 16, 172, 223,
       191, 83, 45, 195>>,
     <<90, 52, 123, 23, 193, 49, 237, 164, 7, 231, 62, 177, 42, 145, 199,
       12, 26, 132, 107, 242, 144, 79, 117, 255, 190, 246, 151, 238, 143,
       210, 254, 7>>,
     <<167, 73, 237, 184, 142, 81, 69, 22, 84, 101, 100, 220, 71, 80, 236,
       132, 201, 145, 141, 241, 54, 72, 164, 37, 66, 26, 134, 38, 122, 126,
       89, 154>>,
     <<32, 248, 26, 24, 130, 255, 225, 97, 22, 182, 228, 192, 34, 197, 6,
       18, 2, 55, 72, 246, 121, 191, 3, 68, 188, 62, 59, 144, 86, 89, 220,
       183>>,
     <<67, 106, 218, 224, 209, 100, 134, 44, 243, 61, 118, 155, 2, 102,
       249, 3, 82, 201, 217, 95, 74, 66, 236, 44, 56, 120, 66, 74, 111, 84,
       237, 212>>,
     <<94, 226, 144, 192, 38, 42, 0, 211, 70, 208, 254, 244, 173, 218, 34,
       181, 88, 49, 73, 243, 174, 1, 203, 175, 88, 104, 100, 178, 159, 220,
       97, 34>>,
     <<109, 205, 109, 244, 54, 162, 32, 99, 167, 72, 127, 233, 175, 198,
       115, 21, 52, 211, 110, 249, 42, 114, 240, 26, 239, 105, 107, 126,
       88, 11, 76, 131>>,
     <<15, 33, 66, 37, 214, 115, 25, 217, 0, 140, 125, 63, 237, 169, 103,
       238, 36, 106, 196, 134, 223, 173, 245, 131, 33, 209, 195, 71, 236,
       176, 15, 122>>,
     <<211, 92, 142, 227, 171, 192, 213, 128, 149, 13, 103, 250, 196, 179,
       75, 150, 127, 53, 219, 232, 210, 48, 223, 168, 184, 203, 108, 134,
       247, 160, 252, 148>>,
     <<116, 29, 9, 187, 78, 98, 220, 157, 69, 26, 209, 101, 105, 74, 57,
       81, 30, 198, 157, 251, 239, 250, 23, 63, 54, 235, 135, 181, 186,
       124, 203, 88>>,
     <<96, 57, 24, 61, 85, 181, 235, 228, 124, 24, 207, 85, 79, 47, 152,
       77, 61, 72, 65, 226, 80, 244, 180, 30, 154, 189, 188, 147, 28, 9,
       46, 210>>,
     <<47, 23, 229, 153, 51, 199, 221, 220, 151, 37, 157, 102, 114, 56, 82,
       109, 190, 208, 0, 48, 133, 147, 246, 132, 217, 6, 54, 178, 191, 27,
       120, 150>>,
     <<3, 218, 172, 221, 135, 129, 157, 195, 235, 100, 68, 58, 20, 175, 71,
       235, 170, 176, 40, 175, 127, 168, 90, 72, 112, 87, 93, 7, 36, 86,
       166, 252>>,
     <<194, 157, 95, 177, 142, 24, 92, 53, 97, 27, 104, 189, 217, 53, 127,
       163, 143, 248, 149, 139, 20, 69, 97, 173, 200, 202, 110, 51, 247,
       157, 172, 45>>,
     <<224, 100, 61, 187, 174, 12, 207, 56, 56, 5, 83, 18, 144, 32, 195,
       154, 201, 108, 115, 54, 248, 78, 230, 28, 228, 219, 62, 56, 63, 123,
       199, 8>>,
     <<116, 84, 61, 72, 117, 2, 233, 217, 25, 120, 19, 196, 199, 244, 13,
       41, 18, 73, 75, 1, 165, 47, 153, 168, 189, 227, 86, 151, 162, 48,
       14, 162>>,
     <<39, 156, 4, 245, 164, 16, 222, 165, 0, 15, 179, 240, 20, 205, 173,
       220, 81, 176, 44, 87, 247, 81, 244, 151, 29, 207, 45, 50, 160, 166,
       35, 60>>,
     <<18, 137, 1, 34, 58, 172, 141, 243, 184, 156, 215, 93, 126, 198, 68,
       249, 146, 78, 217, 220, 208, 30, 12, 101, 174, 153, 51, 74, 60, 249,
       39, 58>>,
     <<90, 182, 87, 192, 198, 61, 33, 206, 245, 171, 97, 81, 221, 196, 254,
       0, 176, 252, 94, 108, 241, 229, 167, 169, 33, 176, 240, 123, 189,
       81, 42, 145>>,
     <<157, 41, 57, 78, 169, 140, 9, 10, 133, 107, 18, 27, 139, 95, 49, 14,
       201, 166, 54, 57, 42, 230, 175, 58, 66, 53, 143, 132, 16, 40, 247,
       19>>,
     <<131, 135, 124, 232, 231, 237, 250, 154, 25, 192, 60, 98, 220, 10,
       11, 92, 247, 208, 216, 46, 102, 192, 93, 54, 179, 45, 96, 54, 149,
       244, 40, 158>>,
     <<215, 249, 35, 49, 62, 69, 143, 75, 178, 49, 198, 114, 171, 219, 28,
       173, 239, 218, 100, 23, 242, 54, 143, 91, 75, 216, 29, 164, 83, 251,
       64, 163>>,
     <<15, 208, 202, 239, 95, 117, 91, 119, 73, 37, 74, 137, 181, 9, 44,
       204, 153, 247, 48, 37, 26, 127, 27, 229, 229, 230, 103, 37, 153, 40,
       16, 168>>,
     <<55, 177, 0, 100, 249, 172, 107, 133, 49, 83, 222, 189, 240, 204, 56,
       220, 76, 68, 255, 16, 111, 170, 199, 174, 7, 43, 150, 150, 119, 238,
       30, 104>>,
     <<16, 74, 33, 220, 44, 131, 60, 220, 220, 68, 87, 18, 175, 137, 197,
       196, 197, 17, 219, 60, 147, 122, 28, 94, 30, 23, 105, 222, 36, 129,
       19, 181>>
  >>

Sha256Asked ==
  <<FILE_1>> \o SubSeq(Sha256Known, 1, 271)
    \o <<FILE_2>> \o SubSeq(Sha256Known, 273, 275)
    \o << NONCE_ZEROS \o Sha256Known[1], NONCE_HIGH \o Sha256Known[1],
          NONCE_ZEROS \o Sha256Known[273], NONCE_HIGH \o Sha256Known[273] >>

\* Every digest written down is the digest of its message.
Sha256KnownIsComputed ==
  \A k \in 1..Len(Sha256Asked) : Sha256Digest(Sha256Asked[k]) = Sha256Known[k]

Sha256Lookup(k, data) ==
  IF k > 0 THEN Sha256Known[k] ELSE Sha256Digest(data)

sha256(data) ==
  Sha256Lookup(IF \E k \in DOMAIN Sha256Asked : Sha256Asked[k] = data
               THEN CHOOSE k \in DOMAIN Sha256Asked : Sha256Asked[k] = data
               ELSE 0, data)

\* SHA-1 (FIPS 180-4, 6.1).
K1 ==
  << <<23170, 31129>>, <<28377, 60321>>, <<36635, 48348>>, <<51810, 49622>> >>

H160 ==
  << <<26437, 8961>>, <<61389, 43913>>, <<39098, 56574>>, <<4146, 21622>>,
     <<50130, 57840>> >>

Parity(x, y, z) == WXor3(x, y, z)

Sha1Word(w) ==
  Append(w, ROTL(WXor(WXor3(w[Len(w) - 2], w[Len(w) - 7], w[Len(w) - 13]),
                      w[Len(w) - 15]), 1))

RECURSIVE Sha1Words(_, _)
Sha1Words(w, n) ==
  IF n = 0 THEN w
  ELSE Step(Sha1Word(w), LAMBDA a : Sha1Words(a, n - 1))

\* W[0..79] from the 16 words of the block.
Sha1Schedule(w) ==
  Step(Sha1Words(w, 16), LAMBDA a :
  Step(Sha1Words(a, 16), LAMBDA b :
  Step(Sha1Words(b, 16), LAMBDA c : Sha1Words(c, 16))))

\* f_t(b, c, d) of round t (1-based).
Sha1F(t, b, c, d) ==
  IF t <= 20 THEN Ch(b, c, d)
  ELSE IF t <= 40 THEN Parity(b, c, d)
  ELSE IF t <= 60 THEN Maj(b, c, d)
  ELSE Parity(b, c, d)

Sha1Round(s, w, t) ==
  <<WAdd5(ROTL(s[1], 5), Sha1F(t, s[2], s[3], s[4]), s[5],
          K1[(t + 19) \div 20], w[t]),
    s[1], ROTL(s[2], 30), s[3], s[4]>>

\* The n rounds after round t.
RECURSIVE Sha1RoundsAfter(_, _, _, _)
Sha1RoundsAfter(s, w, t, n) ==
  IF n = 0 THEN s
  ELSE Step(Sha1Round(s, w, t + 1), LAMBDA a :
         Sha1RoundsAfter(a, w, t + 1, n - 1))

\* The 80 rounds.
Sha1Rounds(s, w) ==
  Step(Sha1RoundsAfter(s, w, 0, 16), LAMBDA a :
  Step(Sha1RoundsAfter(a, w, 16, 16), LAMBDA b :
  Step(Sha1RoundsAfter(b, w, 32, 16), LAMBDA c :
  Step(Sha1RoundsAfter(c, w, 48, 16), LAMBDA d :
    Sha1RoundsAfter(d, w, 64, 16)))))

Sha1Compress(h, b, at) ==
  AddWords(h, Sha1Rounds(h, Sha1Schedule(WordsBigEndian(b, at))))

sha1(data) == DigestBigEndian(Absorb(H160, PadBigEndian(data), Sha1Compress))

\* RIPEMD-160: the two lines of 80 steps; the tables give, for every step,
\* the message word and the rotation of the left and of the right line.
KL ==
  << <<0, 0>>, <<23170, 31129>>, <<28377, 60321>>, <<36635, 48348>>,
     <<43347, 64846>> >>

KR ==
  << <<20642, 35814>>, <<23629, 53540>>, <<28016, 16115>>,
     <<31341, 30441>>, <<0, 0>> >>

RL ==
  << 0, 1, 2, 3, 4, 5, 6, 7, 8, 9, 10, 11, 12, 13, 14, 15, 7, 4, 13, 1, 10,
     6, 15, 3, 12, 0, 9, 5, 2, 14, 11, 8, 3, 10, 14, 4, 9, 15, 8, 1, 2, 7,
     0, 6, 13, 11, 5, 12, 1, 9, 11, 10, 0, 8, 12, 4, 13, 3, 7, 15, 14, 5,
     6, 2, 4, 0, 5, 9, 7, 12, 2, 10, 14, 1, 3, 8, 11, 6, 15, 13 >>

RR ==
  << 5, 14, 7, 0, 9, 2, 11, 4, 13, 6, 15, 8, 1, 10, 3, 12, 6, 11, 3, 7, 0,
     13, 5, 10, 14, 15, 8, 12, 4, 9, 1, 2, 15, 5, 1, 3, 7, 14, 6, 9, 11, 8,
     12, 2, 10, 0, 4, 13, 8, 6, 4, 1, 3, 11, 15, 0, 5, 12, 2, 13, 9, 7, 10,
     14, 12, 15, 10, 4, 1, 5, 8, 7, 6, 2, 13, 14, 0, 3, 9, 11 >>

SL ==
  << 11, 14, 15, 12, 5, 8, 7, 9, 11, 13, 14, 15, 6, 7, 9, 8, 7, 6, 8, 13,
     11, 9, 7, 15, 7, 12, 15, 9, 11, 7, 13, 12, 11, 13, 6, 7, 14, 9, 13,
     15, 14, 8, 13, 6, 5, 12, 7, 5, 11, 12, 14, 15, 14, 15, 9, 8, 9, 14, 5,
     6, 8, 6, 5, 12, 9, 15, 5, 11, 6, 8, 13, 12, 5, 12, 13, 14, 11, 8, 5, 6 >>

SR ==
  << 8, 9, 9, 11, 13, 15, 15, 5, 7, 7, 8, 11, 14, 14, 12, 6, 9, 13, 15, 7,
     12, 8, 9, 11, 7, 7, 12, 7, 6, 15, 13, 11, 9, 7, 15, 11, 8, 6, 6, 14,
     12, 13, 5, 14, 13, 13, 7, 5, 15, 5, 8, 11, 14, 14, 6, 14, 6, 9, 12, 9,
     12, 5, 15, 8, 8, 5, 12, 9, 12, 5, 14, 6, 8, 13, 6, 5, 15, 13, 11, 11 >>

\* f(j, x, y, z) for the group j = 1..5 of 16 steps.
RipemdF(j, x, y, z) ==
  CASE j = 1 -> WXor3(x, y, z)
    [] j = 2 -> WOr(WAnd(x, y), WAnd(WNot(x), z))
    [] j = 3 -> WXor(WOr(x, WNot(y)), z)
    [] j = 4 -> WOr(WAnd(x, z), WAnd(y, WNot(z)))
    [] j = 5 -> WXor(x, WOr(y, WNot(z)))

\* One step on the line <<A, B, C, D, E>>: f is the step's function value,
\* x its message word, k its constant, s its rotation.
RipemdStep(v, f, x, k, s) ==
  <<v[5], WAdd(ROTL(WAdd(WAdd3(v[1], f, x), k), s), v[5]), v[2],
    ROTL(v[3], 10), v[4]>>

RipemdLeft(v, x, t) ==
  RipemdStep(v, RipemdF((t + 15) \div 16, v[2], v[3], v[4]),
             x[RL[t] + 1], KL[(t + 15) \div 16], SL[t])

RipemdRight(v, x, t) ==
  RipemdStep(v, RipemdF(6 - (t + 15) \div 16, v[2], v[3], v[4]),
             x[RR[t] + 1], KR[(t + 15) \div 16], SR[t])

\* The n steps of the left line after step t.
RECURSIVE RipemdLeftAfter(_, _, _, _)
RipemdLeftAfter(v, x, t, n) ==
  IF n = 0 THEN v
  ELSE Step(RipemdLeft(v, x, t + 1), LAMBDA a :
         RipemdLeftAfter(a, x, t + 1, n - 1))

\* The 80 steps of the line.
RipemdLeftLine(v, x) ==
  Step(RipemdLeftAfter(v, x, 0, 16), LAMBDA a :
  Step(RipemdLeftAfter(a, x, 16, 16), LAMBDA b :
  Step(RipemdLeftAfter(b, x, 32, 16), LAMBDA c :
  Step(RipemdLeftAfter(c, x, 48, 16), LAMBDA d :
    RipemdLeftAfter(d, x, 64, 16)))))

RECURSIVE RipemdRightAfter(_, _, _, _)
RipemdRightAfter(v, x, t, n) ==
  IF n = 0 THEN v
  ELSE Step(RipemdRight(v, x, t + 1), LAMBDA a :
         RipemdRightAfter(a, x, t + 1, n - 1))

\* The 80 steps of the line.
RipemdRightLine(v, x) ==
  Step(RipemdRightAfter(v, x, 0, 16), LAMBDA a :
  Step(RipemdRightAfter(a, x, 16, 16), LAMBDA b :
  Step(RipemdRightAfter(b, x, 32, 16), LAMBDA c :
  Step(RipemdRightAfter(c, x, 48, 16), LAMBDA d :
    RipemdRightAfter(d, x, 64, 16)))))

\* The chaining value after the two lines l and r.
RipemdCombine(h, l, r) ==
  <<WAdd3(h[2], l[3], r[4]), WAdd3(h[3], l[4], r[5]),
    WAdd3(h[4], l[5], r[1]), WAdd3(h[5], l[1], r[2]),
    WAdd3(h[1], l[2], r[3])>>

RipemdLines(h, x) ==
  RipemdCombine(h, RipemdLeftLine(h, x), RipemdRightLine(h, x))

RipemdCompress(h, b, at) == RipemdLines(h, WordsLittleEndian(b, at))

ripemd160(data) ==
  DigestLittleEndian(Absorb(H160, PadLittleEndian(data), RipemdCompress))

\* ------------------------------------------------------------------------
\* operations.ts.  A result is [ok, err, val]; ok = FALSE is a throw.
\* ------------------------------------------------------------------------

Returned(v) == [ok |-> TRUE, err |-> "", val |-> v]

Thrown(e) == [ok |-> FALSE, err |-> e, val |-> <<>>]

applyOperation(op, msg) ==
  CASE op.type = "append"    -> Returned(msg \o op.data)
    [] op.type = "prepend"   -> Returned(op.data \o msg)
    [] op.type = "sha256"    -> Returned(sha256(msg))
    [] op.type = "sha1"      -> Returned(sha1(msg))
    [] op.type = "ripemd160" -> Returned(ripemd160(msg))
    [] op.type = "keccak256" -> Thrown("Keccak256 is not supported")
    [] op.type = "reverse"   -> Returned(Reverse(msg))
    [] op.type = "hexlify"   -> Returned(bytesToHex(msg))

hashContents(data, hashOp) ==
  CASE hashOp = "sha256"    -> Returned(sha256(data))
    [] hashOp = "sha1"      -> Returned(sha1(data))
    [] hashOp = "ripemd160" -> Returned(ripemd160(data))
    [] hashOp = "keccak256" -> Thrown("Keccak256 is not supported")

\* ------------------------------------------------------------------------
\* Asynchronous calls.  An async function runs to its first await and hands
\* its caller a promise; it is suspended there, and so is every caller that
\* awaits its promise in turn, up to the API function.  A call under way is
\* a record with
\*   stack   the suspended functions, outermost first: frames [fn, at, ...],
\*           fn the function and at the line of the await it stands at
\*   ret     the outcome, Returned or Thrown, of the async function that
\*           the frame on top of the stack awaits, once that has ended
\* A turn of the event loop resumes the frame on top of the stack, with ret
\* or with what has arrived from outside (a response, a body, a digest),
\* and runs it to its next await or to its end.  A function that ends
\* leaves its outcome in ret and its caller on top of the stack, to be
\* resumed in a turn of its own; the call has settled when the stack is
\* empty.  The operators below take the call c without the frame that runs,
\* and that frame f.
\* ------------------------------------------------------------------------

Top(c) == c.stack[Len(c.stack)]

Below(c) == [c EXCEPT !.stack = SubSeq(@, 1, Len(@) - 1)]

Suspend(c, f) == [c EXCEPT !.stack = Append(@, f)]

Return(c, v) == [c EXCEPT !.ret = Returned(v)]

Throw(c, e) == [c EXCEPT !.ret = Thrown(e)]

\* sha256(data) and sha1(data) up to await crypto.subtle.digest.
digestSuspends(c, alg, data) ==
  Suspend(c, [fn |-> alg, at |-> IF alg = "sha256" THEN 14 ELSE 25,
              data |-> data])

\* The digest has arrived: return new Uint8Array(hash).
digestResumes(c, f) ==
  Return(c, IF f.fn = "sha256" THEN sha256(f.data) ELSE sha1(f.data))

\* applyOperation(op, msg) as its caller awaits it: suspended in sha256 or
\* sha1, or ended already.
applyOperationStarts(c, op, msg) ==
  IF op.type \in {"sha256", "sha1"} THEN digestSuspends(c, op.type, msg)
  ELSE [c EXCEPT !.ret = applyOperation(op, msg)]

\* hashContents(data, hashOp) as its caller awaits it.
hashContentsStarts(c, data, hashOp) ==
  IF hashOp \in {"sha256", "sha1"} THEN digestSuspends(c, hashOp, data)
  ELSE [c EXCEPT !.ret = hashContents(data, hashOp)]

\* ------------------------------------------------------------------------
\* bitcoin.ts.  A verification keeps the log of its block lookups:
\* lookups[k] is [height, msg, reqs, info] with the height asked for, the
\* message at the attestation, the requests made (base, path, and once they
\* have arrived the response's status, 0 when fetch throws, and the body
\* read from it) and the outcome of getBlockInfo.  The body of a
\* block-height response is a string, that of a block response the record
\*   merkleRoot   <<s>> when json.merkle_root is the string s, else <<>>
\*   timestamp    <<n>> when json.timestamp is the number n, else <<>>
\* ------------------------------------------------------------------------

ResponseOk(status) == status >= 200 /\ status <= 299

WhiteSpace ==
  {9, 10, 11, 12, 13, 32, 160, 5760, 8232, 8233, 8239, 8287, 12288, 65279}
    \cup (8192..8202)

RECURSIVE TrimStart(_)
TrimStart(s) ==
  IF s # <<>> /\ Head(s) \in WhiteSpace THEN TrimStart(Tail(s)) ELSE s

\* String.prototype.trim
Trim(s) == Reverse(TrimStart(Reverse(TrimStart(s))))

BLOCKSTREAM == "https://blockstream.info/api"

MEMPOOL == "https://mempool.space/api"

\* fetch is called: the request joins those of the lookup under way.
Asked(c, base, path) ==
  [c EXCEPT !.lookups[Len(c.lookups)].reqs =
              Append(@, [base |-> base, path |-> path, response |-> <<>>,
                         body |-> <<>>])]

\* getBlockInfoFrom up to its first await, of fetch.
getBlockInfoFrom(c, baseUrl, height) ==
  Suspend(Asked(c, baseUrl, "block-height"),
          [fn |-> "getBlockInfoFrom", at |-> 67, baseUrl |-> baseUrl,
           height |-> height, blockHash |-> <<>>])

\* getBlockInfoFrom resumed with x: the status of a response at the awaits
\* of fetch (0: fetch throws), the body at those of text() and json().
getBlockInfoFromResumes(c, f, x) ==
  IF f.at \in {67, 80}
  THEN IF x = 0 THEN Throw(c, "fetch failed")
       ELSE IF ~ResponseOk(x) THEN Throw(c, "HTTP status")
       ELSE Suspend(c, [f EXCEPT !.at = IF f.at = 67 THEN 73 ELSE 86])
  ELSE IF f.at = 73
  THEN Then(Trim(x), LAMBDA blockHash :
         IF Len(Utf16(blockHash)) # 64
         THEN Throw(c, "Expected 64-char block hash")
         ELSE Suspend(Asked(c, f.baseUrl, "block"),
                      [f EXCEPT !.at = 80, !.blockHash = blockHash]))
  ELSE IF x.merkleRoot = <<>>
  THEN Throw(c, "Missing merkle_root in block JSON")
  ELSE IF x.timestamp = <<>>
  THEN Throw(c, "Missing timestamp in block JSON")
  ELSE Return(c, [height |-> f.height, blockHash |-> f.blockHash,
                  merkleRoot |-> x.merkleRoot[1],
                  timestamp |-> x.timestamp[1]])

\* getBlockInfo, asking mempool.space first.
getBlockInfoFallbackFirst(c, height) ==
  getBlockInfoFrom(Suspend(c, [fn |-> "getBlockInfo", at |-> 59,
                               height |-> height]),
                   MEMPOOL, height)

\* getBlockInfo up to its first await, of getBlockInfoFrom.
getBlockInfo(c, height) ==
  getBlockInfoFrom(Suspend(c, [fn |-> "getBlockInfo", at |-> 59,
                               height |-> height]),
                   BLOCKSTREAM, height)

\* return await ...: in the try block a throw is caught and the fallback
\* asked; what the fallback comes to is the outcome.
getBlockInfoResumes(c, f) ==
  IF f.at = 59 /\ ~c.ret.ok
  THEN getBlockInfoFrom(Suspend(c, [f EXCEPT !.at = 61]), MEMPOOL, f.height)
  ELSE c

\* merkleRootToLeBytes without bytes.reverse().
merkleRootBigEndian(hexBe) == hexToBytes(hexBe)

merkleRootToLeBytes(hexBe) ==
  Try(hexToBytes(hexBe), LAMBDA bytes : Returned(Reverse(bytes.val)))

\* ------------------------------------------------------------------------
\* verify.ts.  A verification under way carries, besides its stack,
\*   lookups   the log of its block lookups
\*   applied   the number of applyOperation calls it has made
\* and a frame of walkTimestamp holds ts, msg, depth, the results pushed so
\* far and the indices i and j of the attestation and of the continuation
\* that its loops are at.
\* ------------------------------------------------------------------------

Looked(c, blockInfo) ==
  [c EXCEPT !.lookups[Len(c.lookups)].info = <<blockInfo>>]

\* verifyBitcoin up to its await, of getBlockInfo.
verifyBitcoin(c, height, msg) ==
  getBlockInfo(
    Suspend([c EXCEPT !.lookups =
                        Append(@, [height |-> height, msg |-> msg,
                                   reqs |-> <<>>, info |-> <<>>])],
            [fn |-> "verifyBitcoin", at |-> 133, height |-> height,
             msg |-> msg]),
    height)

\* verifyBitcoin, a lookup that fails reported as a mismatch.
verifyBitcoinFetchIsMismatch(c, f) ==
  Then(c.ret, LAMBDA blockInfo :
    IF ~blockInfo.ok
    THEN Return(Looked(c, blockInfo),
                [status |-> "failed", height |-> f.height,
                 expected |-> <<>>, got |-> f.msg])
    ELSE Then(merkleRootToLeBytes(blockInfo.val.merkleRoot),
              LAMBDA expectedLe :
      IF expectedLe.ok /\ constantTimeEqual(f.msg, expectedLe.val)
      THEN Return(Looked(c, blockInfo),
                  [status |-> "verified", height |-> f.height,
                   blockHash |-> blockInfo.val.blockHash,
                   blockTime |-> blockInfo.val.timestamp])
      ELSE Return(Looked(c, blockInfo),
                  [status |-> "failed", height |-> f.height,
                   expected |-> expectedLe.val, got |-> f.msg])))

\* verifyBitcoin resumed with the outcome of getBlockInfo: whatever is
\* thrown in the try block is an error result.
verifyBitcoinResumes(c, f) ==
  Then(c.ret, LAMBDA blockInfo :
    IF ~blockInfo.ok
    THEN Return(Looked(c, blockInfo),
                [status |-> "error",
                 message |-> "Could not fetch Bitcoin block",
                 height |-> f.height, cause |-> blockInfo.err])
    ELSE Then(merkleRootToLeBytes(blockInfo.val.merkleRoot),
              LAMBDA expectedLe :
      IF ~expectedLe.ok
      THEN Return(Looked(c, blockInfo),
                  [status |-> "error",
                   message |-> "Could not fetch Bitcoin block",
                   height |-> f.height, cause |-> expectedLe.err])
      ELSE IF constantTimeEqual(f.msg, expectedLe.val)
      THEN Return(Looked(c, blockInfo),
                  [status |-> "verified", height |-> f.height,
                   blockHash |-> blockInfo.val.blockHash,
                   blockTime |-> blockInfo.val.timestamp])
      ELSE Return(Looked(c, blockInfo),
                  [status |-> "failed", height |-> f.height,
                   expected |-> expectedLe.val, got |-> f.msg])))

\* checkAttestation as walkTimestamp awaits it: suspended in the lookup of
\* a Bitcoin attestation, or ended with the result of another one.
checkAttestation(c, att, msg) ==
  CASE att.type = "bitcoin" -> verifyBitcoin(c, att.height, msg)
    [] att.type = "pending" ->
         Return(c, [status |-> "pending", uri |-> att.uri])
    [] att.type = "litecoin" ->
         Return(c, [status |-> "skipped",
                    reason |-> "Litecoin block - not verified",
                    height |-> att.height])
    [] att.type = "ethereum" ->
         Return(c, [status |-> "skipped",
                    reason |-> "Ethereum block - not verified",
                    height |-> att.height])
    [] att.type = "unknown" ->
         Return(c, [status |-> "skipped",
                    reason |-> "Unknown attestation type",
                    tag |-> bytesToHex(att.tag)])

OperationFailed(e) ==
  [status |-> "error", message |-> "Operation failed", cause |-> e]

IsFailure(r) == r.status \in {"failed", "error"}

\* walkOps, leaving the loop after a continuation that failed.
walkOpsUntilFailure(c, f) ==
  IF f.j > Len(f.ts.ops)
       \/ (f.results # <<>> /\ f.j > 1
             /\ f.results[Len(f.results)].status = "error")
  THEN Return(c, f.results)
  ELSE applyOperationStarts(
         Suspend([c EXCEPT !.applied = @ + 1], [f EXCEPT !.at = 102]),
         f.ts.ops[f.j][1], f.msg)

\* The second loop of walkTimestamp from continuation f.j, up to its await
\* of applyOperation, or the return of the results.
walkOps(c, f) ==
  IF f.j > Len(f.ts.ops) THEN Return(c, f.results)
  ELSE applyOperationStarts(
         Suspend([c EXCEPT !.applied = @ + 1], [f EXCEPT !.at = 102]),
         f.ts.ops[f.j][1], f.msg)

\* walkAttestations, leaving the loop after an attestation that failed.
walkAttestationsUntilFailure(c, f) ==
  IF f.i > Len(f.ts.attestations)
       \/ (f.results # <<>> /\ IsFailure(f.results[Len(f.results)]))
  THEN walkOps(c, f)
  ELSE checkAttestation(Suspend(c, [f EXCEPT !.at = 96]),
                        f.ts.attestations[f.i], f.msg)

\* The first loop of walkTimestamp from attestation f.i, up to its await of
\* checkAttestation; the second loop after it.
walkAttestations(c, f) ==
  IF f.i > Len(f.ts.attestations) THEN walkOps(c, f)
  ELSE checkAttestation(Suspend(c, [f EXCEPT !.at = 96]),
                        f.ts.attestations[f.i], f.msg)

\* walkTimestamp up to its first await.
walkTimestamp(c, ts, msg, depth) ==
  IF depth > MAX_DEPTH
  THEN Return(c, <<[status |-> "error",
                    message |-> "Proof tree exceeds maximum depth"]>>)
  ELSE walkAttestations(c, [fn |-> "walkTimestamp", at |-> 96, ts |-> ts,
                            msg |-> msg, depth |-> depth, results |-> <<>>,
                            i |-> 1, j |-> 1])

\* walkTimestampResumes, the results of a continuation put in front of
\* those pushed before.
walkTimestampChildFirst(c, f) ==
  IF f.at = 96
  THEN walkAttestations(c, [f EXCEPT !.results = Append(@, c.ret.val),
                                     !.i = @ + 1])
  ELSE IF ~c.ret.ok
  THEN walkOps(c, [f EXCEPT !.results = Append(@, OperationFailed(c.ret.err)),
                            !.j = @ + 1])
  ELSE IF f.at = 102
  THEN walkTimestamp(Suspend(c, [f EXCEPT !.at = 103]), f.ts.ops[f.j][2],
                     c.ret.val, f.depth + 1)
  ELSE walkOps(c, [f EXCEPT !.results = c.ret.val \o @, !.j = @ + 1])

\* walkTimestamp resumed with the outcome of what it awaits: the result of
\* an attestation is pushed and the first loop goes on; a throw in the try
\* block is an error result and the second loop goes on; the message of
\* an operation is walked on with; the results of a continuation are
\* pushed and the second loop goes on.
walkTimestampResumes(c, f) ==
  IF f.at = 96
  THEN walkAttestations(c, [f EXCEPT !.results = Append(@, c.ret.val),
                                     !.i = @ + 1])
  ELSE IF ~c.ret.ok
  THEN walkOps(c, [f EXCEPT !.results = Append(@, OperationFailed(c.ret.err)),
                            !.j = @ + 1])
  ELSE IF f.at = 102
  THEN walkTimestamp(Suspend(c, [f EXCEPT !.at = 103]), f.ts.ops[f.j][2],
                     c.ret.val, f.depth + 1)
  ELSE walkOps(c, [f EXCEPT !.results = @ \o c.ret.val, !.j = @ + 1])

\* A verification that has just been called.
VerifyCalled(op, input) ==
  [op |-> op, input |-> input, stack |-> <<>>, ret |-> Returned(<<>>),
   lookups |-> <<>>, applied |-> 0]

\* verifyFile up to its await of hashContents.
verifyFile(fileData, otsData) ==
  Then(parseOts(otsData), LAMBDA ots :
    IF ~ots.ok THEN Throw(VerifyCalled("verifyFile", fileData), ots.err)
    ELSE hashContentsStarts(
           Suspend(VerifyCalled("verifyFile", fileData),
                   [fn |-> "verifyFile", at |-> 27, ots |-> ots.val]),
           fileData, ots.val.hashOp))

\* verifyFile, walking the tree whatever the digest is.
verifyFileWalksAnyway(c, f) ==
  IF ~c.ret.ok THEN c
  ELSE walkTimestamp(c, f.ots.timestamp, f.ots.fileDigest, 0)

\* verifyFile resumed with the digest: the comparison, and walkTimestamp up
\* to its first await; its promise is the one of the call.
verifyFileResumes(c, f) ==
  IF ~c.ret.ok THEN c
  ELSE IF ~constantTimeEqual(c.ret.val, f.ots.fileDigest)
  THEN Throw(c, "File digest mismatch!")
  ELSE walkTimestamp(c, f.ots.timestamp, f.ots.fileDigest, 0)

\* verifyDigest up to the first await of walkTimestamp.
verifyDigest(digestHex, otsData) ==
  Then(parseOts(otsData), LAMBDA ots :
    IF ~ots.ok THEN Throw(VerifyCalled("verifyDigest", digestHex), ots.err)
    ELSE Then(hexToBytes(digestHex), LAMBDA digest :
      IF ~digest.ok
      THEN Throw(VerifyCalled("verifyDigest", digestHex), digest.err)
      ELSE IF ~constantTimeEqual(digest.val, ots.val.fileDigest)
      THEN Throw(VerifyCalled("verifyDigest", digestHex), "Digest mismatch!")
      ELSE walkTimestamp(VerifyCalled("verifyDigest", digestHex),
                         ots.val.timestamp, ots.val.fileDigest, 0)))

\* What a verification that has settled comes to: ok = FALSE is a
\* rejected promise (a throw).
VerifySettled(c) ==
  [op |-> c.op, input |-> c.input,
   out |-> [ok |-> c.ret.ok, err |-> c.ret.err, results |-> c.ret.val,
            lookups |-> c.lookups, applied |-> c.applied]]

\* ------------------------------------------------------------------------
\* upgrade.ts.  The nodes of the tree that upgradeProof mutates are objects
\* of a heap: heap[id] is a node whose continuations are pairs <<op, child>>,
\* child being the id of a node of the heap, and a file in memory is
\* [ots |-> [hashOp, fileDigest, timestamp |-> 1], heap].  The heap belongs
\* to the session: every call under way on the file reads and writes it.
\* An upgrade under way carries, besides its stack,
\*   u       the UpgradeResult (upgraded, stillPending, errors), the log of
\*           the requests made (requests: the request, the path of the node
\*           it was made for, that is the indices of the continuations
\*           followed from the root, and the index of the Pending in that
\*           node's attestations) and the log of the operations handed to
\*           applyOperation (applied: the operation, its node, its index)
\*   cals    the log of the replies: cals[k] is the reply to requests[k], a
\*           record [status, body] with the HTTP status, 0 when fetch
\*           throws, and the body read from the response, bytes
\*   before  the file in memory when the call was made
\*   alone   whether no other upgrade of the file was under way during it
\* and a frame of upgradeTimestamp holds the node's id, msg, depth, the
\* array atts that its first loop iterates, the index i in it,
\* newAttestations, newOps (sub-trees as parsed), originalOps and the index
\* j in it.
\* ------------------------------------------------------------------------

RECURSIVE StripTrailingSlashes(_)
StripTrailingSlashes(uri) ==
  IF uri # <<>> /\ uri[Len(uri)] = 47
  THEN StripTrailingSlashes(SubSeq(uri, 1, Len(uri) - 1))
  ELSE uri

\* The request of fetchUpgrade: GET {uri}/timestamp/{hex(msg)}.
UpgradeRequest(uri, msg) ==
  [base |-> StripTrailingSlashes(uri), path |-> "timestamp",
   hex |-> bytesToHex(msg)]

\* The tree below node id of the heap.
RECURSIVE TreeOf(_, _)
TreeOf(heap, id) ==
  Node(heap[id].attestations,
       [k \in 1..Len(heap[id].ops) |->
          <<heap[id].ops[k][1], TreeOf(heap, heap[id].ops[k][2])>>])

\* ts.ops.push(...ops) for the node id, from the k-th of ops on: the
\* sub-trees below them are nodes of the heap from now on, numbered in the
\* order the parser made them.
RECURSIVE Grafted(_, _, _, _)
Grafted(heap, id, ops, k) ==
  IF k > Len(ops) THEN heap
  ELSE Then(Len(heap) + 1, LAMBDA child :
       Then(Grafted(Append(heap, Node(ops[k][2].attestations, <<>>)),
                    child, ops[k][2].ops, 1),
            LAMBDA h :
              Grafted([h EXCEPT ![id].ops = Append(@, <<ops[k][1], child>>)],
                      id, ops, k + 1)))

\* The objects of a tree that the parser returned.
HeapOf(ts) == Grafted(<<Node(ts.attestations, <<>>)>>, 1, ts.ops, 1)

\* The path of the node whose frame is on top of the stack, the frame of
\* upgradeProof lying at its bottom.
PathOf(stack) == [k \in 1..(Len(stack) - 2) |-> stack[k + 1].j]

\* fetchUpgrade up to its first await, of fetch.
fetchUpgrade(c, uri, msg) ==
  Suspend([c EXCEPT !.u.requests =
                      Append(@, [url |-> UpgradeRequest(uri, msg),
                                 node |-> PathOf(c.stack),
                                 index |-> Top(c).i])],
          [fn |-> "fetchUpgrade", at |-> 105, uri |-> uri, msg |-> msg])

\* fetchUpgrade, a 404 thrown like any other status that is not 2xx.
fetchUpgradeThrowsOn404(c, f, x) ==
  IF f.at = 105
  THEN IF x = 0 THEN Throw(c, "fetch failed")
       ELSE IF ~ResponseOk(x) THEN Throw(c, "HTTP status")
       ELSE Suspend(c, [f EXCEPT !.at = 121])
  ELSE IF Len(x) = 0 THEN Return(c, <<>>)
  ELSE Then(parseTimestampFromBytes(x), LAMBDA subTree :
         IF subTree.ok THEN Return(c, <<subTree.val>>)
         ELSE Throw(c, subTree.err))

\* fetchUpgrade, every status that is not 2xx taken for "not ready yet".
fetchUpgradeNullOnStatus(c, f, x) ==
  IF f.at = 105
  THEN IF x = 0 THEN Throw(c, "fetch failed")
       ELSE IF ~ResponseOk(x) THEN Return(c, <<>>)
       ELSE Suspend(c, [f EXCEPT !.at = 121])
  ELSE IF Len(x) = 0 THEN Return(c, <<>>)
  ELSE Then(parseTimestampFromBytes(x), LAMBDA subTree :
         IF subTree.ok THEN Return(c, <<subTree.val>>)
         ELSE Throw(c, subTree.err))

\* fetchUpgrade resumed with x: the status of the response at the await of
\* fetch (0: fetch throws), the body at that of arrayBuffer().  It returns
\* <<>> for null and <<subTree>> for the sub-tree.
fetchUpgradeResumes(c, f, x) ==
  IF f.at = 105
  THEN IF x = 0 THEN Throw(c, "fetch failed")
       ELSE IF x = 404 THEN Return(c, <<>>)
       ELSE IF ~ResponseOk(x) THEN Throw(c, "HTTP status")
       ELSE Suspend(c, [f EXCEPT !.at = 121])
  ELSE IF Len(x) = 0 THEN Return(c, <<>>)
  ELSE Then(parseTimestampFromBytes(x), LAMBDA subTree :
         IF subTree.ok THEN Return(c, <<subTree.val>>)
         ELSE Throw(c, subTree.err))

RECURSIVE hasPendingAttestation(_)
RECURSIVE hasPendingBelow(_, _)

hasPendingBelow(ts, j) ==
  IF j > Len(ts.ops) THEN FALSE
  ELSE IF hasPendingAttestation(ts.ops[j][2]) THEN TRUE
  ELSE hasPendingBelow(ts, j + 1)

\* hasPendingAttestation, looking at the node's own attestations only.
hasPendingAtNode(ts) ==
  \E i \in 1..Len(ts.attestations) : ts.attestations[i].type = "pending"

hasPendingAttestation(ts) ==
  IF \E i \in 1..Len(ts.attestations) : ts.attestations[i].type = "pending"
  THEN TRUE
  ELSE hasPendingBelow(ts, 1)

\* What a turn of an upgrade comes to: the call and the heap.
Ran(c, heap) == [c |-> c, heap |-> heap]

\* The second loop of upgradeTimestamp from originalOps[f.j], up to its
\* await of applyOperation, or the return.
upgradeOps(c, f, heap) ==
  IF f.j > Len(f.originalOps) THEN Ran(Return(c, <<>>), heap)
  ELSE Ran(applyOperationStarts(
             Suspend([c EXCEPT !.u.applied =
                                 Append(@, [op |-> f.originalOps[f.j][1],
                                            node |-> PathOf(Suspend(c, f).stack),
                                            index |-> f.j])],
                     [f EXCEPT !.at = 90]),
             f.originalOps[f.j][1], f.msg),
           heap)

\* upgradeMerge with the continuations of the fetched sub-trees put in
\* front of the node's own.
upgradeMergeNewOpsFirst(c, f, heap) ==
  Then(Len(f.newOps), LAMBDA n :
  Then(Grafted([heap EXCEPT ![f.id].attestations = f.newAttestations],
               f.id, f.newOps, 1),
       LAMBDA h :
         upgradeOps(c, [f EXCEPT !.originalOps = heap[f.id].ops, !.j = 1],
                    [h EXCEPT ![f.id].ops =
                       SubSeq(@, Len(@) - n + 1, Len(@))
                         \o SubSeq(@, 1, Len(@) - n)])))

\* upgradeMerge without ts.ops.push(...newOps).
upgradeMergeDropsNewOps(c, f, heap) ==
  upgradeOps(c, [f EXCEPT !.originalOps = heap[f.id].ops, !.j = 1],
             [heap EXCEPT ![f.id].attestations = f.newAttestations])

\* upgradeMerge with the second loop over ts.ops as mutated, the
\* continuations of the fetched sub-trees included.
upgradeMergeWalksNewOps(c, f, heap) ==
  Then(Grafted([heap EXCEPT ![f.id].attestations = f.newAttestations],
               f.id, f.newOps, 1),
       LAMBDA h :
         upgradeOps(c, [f EXCEPT !.originalOps = h[f.id].ops, !.j = 1], h))

\* upgradeTimestamp between its loops: the snapshot of originalOps and the
\* two assignments to the node; the second loop after them.
upgradeMerge(c, f, heap) ==
  upgradeOps(c, [f EXCEPT !.originalOps = heap[f.id].ops, !.j = 1],
             Grafted([heap EXCEPT ![f.id].attestations = f.newAttestations],
                     f.id, f.newOps, 1))

\* The first loop of upgradeTimestamp from atts[f.i], up to its await of
\* fetchUpgrade at a Pending; what follows the loop after it.
RECURSIVE upgradeAttestations(_, _, _)
upgradeAttestations(c, f, heap) ==
  IF f.i > Len(f.atts) THEN upgradeMerge(c, f, heap)
  ELSE IF f.atts[f.i].type = "pending"
  THEN Ran(fetchUpgrade(Suspend(c, [f EXCEPT !.at = 62]),
                        f.atts[f.i].uri, f.msg),
           heap)
  ELSE upgradeAttestations(
         c, [f EXCEPT !.newAttestations = Append(@, f.atts[f.i]),
                      !.i = @ + 1],
         heap)

\* upgradeTimestamp up to its first await.
upgradeTimestamp(c, heap, id, msg, depth) ==
  IF depth > MAX_DEPTH
  THEN Ran(Return([c EXCEPT !.u.errors =
                              Append(@, "Proof tree exceeds maximum depth")],
                  <<>>),
           heap)
  ELSE upgradeAttestations(
         c, [fn |-> "upgradeTimestamp", at |-> 62, id |-> id, msg |-> msg,
             depth |-> depth, atts |-> heap[id].attestations, i |-> 1,
             newAttestations |-> <<>>, newOps |-> <<>>,
             originalOps |-> <<>>, j |-> 1],
         heap)

\* upgradeFetched, keeping a Pending whose request failed without
\* recording the error.
upgradeFetchedDropsError(c, f, heap) ==
  IF ~c.ret.ok
  THEN upgradeAttestations(
         c, [f EXCEPT !.newAttestations = Append(@, f.atts[f.i]),
                      !.i = @ + 1],
         heap)
  ELSE IF c.ret.val # <<>>
  THEN upgradeAttestations(
         [c EXCEPT !.u.upgraded = @ + 1],
         [f EXCEPT !.newAttestations = @ \o c.ret.val[1].attestations,
                   !.newOps = @ \o c.ret.val[1].ops,
                   !.i = @ + 1],
         heap)
  ELSE upgradeAttestations(
         [c EXCEPT !.u.stillPending = @ + 1],
         [f EXCEPT !.newAttestations = Append(@, f.atts[f.i]),
                   !.i = @ + 1],
         heap)

\* upgradeTimestamp resumed with the outcome of fetchUpgrade: a sub-tree,
\* null, or a throw caught; the first loop goes on.
upgradeFetched(c, f, heap) ==
  IF ~c.ret.ok
  THEN upgradeAttestations(
         [c EXCEPT !.u.errors = Append(@, c.ret.err)],
         [f EXCEPT !.newAttestations = Append(@, f.atts[f.i]),
                   !.i = @ + 1],
         heap)
  ELSE IF c.ret.val # <<>>
  THEN upgradeAttestations(
         [c EXCEPT !.u.upgraded = @ + 1],
         [f EXCEPT !.newAttestations = @ \o c.ret.val[1].attestations,
                   !.newOps = @ \o c.ret.val[1].ops,
                   !.i = @ + 1],
         heap)
  ELSE upgradeAttestations(
         [c EXCEPT !.u.stillPending = @ + 1],
         [f EXCEPT !.newAttestations = Append(@, f.atts[f.i]),
                   !.i = @ + 1],
         heap)

\* upgradeApplied, walking the child with the parent's message.
upgradeAppliedKeepsMsg(c, f, heap) ==
  IF ~c.ret.ok
  THEN upgradeOps([c EXCEPT !.u.errors = Append(@, "Operation failed")],
                  [f EXCEPT !.j = @ + 1], heap)
  ELSE upgradeTimestamp(Suspend(c, [f EXCEPT !.at = 91]), heap,
                        f.originalOps[f.j][2], f.msg, f.depth + 1)

\* upgradeTimestamp resumed with the outcome of applyOperation: the child
\* is walked with the new message, up to its first await; a throw is
\* caught and the second loop goes on.
upgradeApplied(c, f, heap) ==
  IF ~c.ret.ok
  THEN upgradeOps([c EXCEPT !.u.errors = Append(@, "Operation failed")],
                  [f EXCEPT !.j = @ + 1], heap)
  ELSE upgradeTimestamp(Suspend(c, [f EXCEPT !.at = 91]), heap,
                        f.originalOps[f.j][2], c.ret.val, f.depth + 1)

\* upgradeWalked without the loop's step: the same continuation is taken
\* again.
upgradeWalkedSameOp(c, f, heap) ==
  IF ~c.ret.ok
  THEN upgradeOps([c EXCEPT !.u.errors = Append(@, "Operation failed")],
                  [f EXCEPT !.j = @ + 1], heap)
  ELSE upgradeOps(c, f, heap)

\* upgradeTimestamp resumed when the walk of a child has ended: the second
\* loop goes on.
upgradeWalked(c, f, heap) ==
  IF ~c.ret.ok
  THEN upgradeOps([c EXCEPT !.u.errors = Append(@, "Operation failed")],
                  [f EXCEPT !.j = @ + 1], heap)
  ELSE upgradeOps(c, [f EXCEPT !.j = @ + 1], heap)

\* upgradeTimestamp resumed at the await it stands at.
upgradeTimestampResumes(c, f, heap) ==
  CASE f.at = 62 -> upgradeFetched(c, f, heap)
    [] f.at = 90 -> upgradeApplied(c, f, heap)
    [] f.at = 91 -> upgradeWalked(c, f, heap)

\* An upgrade of the file in memory that has just been called.
UpgradeStart(before, alone) ==
  [op |-> "upgradeProof", stack |-> <<>>, ret |-> Returned(<<>>),
   u |-> [upgraded |-> 0, stillPending |-> 0, errors |-> <<>>,
          requests |-> <<>>, applied |-> <<>>],
   cals |-> <<>>, alreadyComplete |-> FALSE, before |-> before,
   alone |-> alone]

\* upgradeProof once hasPendingAttestation has answered, up to the first
\* await of the walk.
upgradeProof(c, file, hasPending) ==
  IF ~hasPending
  THEN Ran(Return([c EXCEPT !.alreadyComplete = TRUE], <<>>), file.heap)
  ELSE upgradeTimestamp(Suspend(c, [fn |-> "upgradeProof", at |-> 38]),
                        file.heap, file.ots.timestamp, file.ots.fileDigest,
                        0)

\* await upgradeTimestamp(...) ends in upgradeProof: return result.
upgradeProofResumes(c, f) == c

\* What an upgrade that has settled comes to, and the file as it leaves it.
UpgradeSettled(c, after) ==
  [op |-> "upgradeProof", alone |-> c.alone, before |-> c.before,
   after |-> after, cals |-> c.cals,
   out |-> [ok |-> c.ret.ok, upgraded |-> c.u.upgraded,
            stillPending |-> c.u.stillPending, errors |-> c.u.errors,
            alreadyComplete |-> c.alreadyComplete,
            requests |-> c.u.requests, applied |-> c.u.applied]]

\* ------------------------------------------------------------------------
\* stamp.ts.  A stamp under way is a call with
\*   sha256Hex  the digest passed to stampHash
\*   nonce      the bytes that crypto.getRandomValues fills, an input of
\*              the call
\*   posts      the requests made so far
\*   replies    what has arrived for them: replies[k] is [status, body] for
\*              posts[k], status 0 when fetch throws, body <<>> until the
\*              body has been read
\*   errors     the per-server errors that the message of "No calendar
\*              server responded" carries, once the loop has ended
\* ------------------------------------------------------------------------

CALENDAR_SERVERS ==
  << "https://alice.btc.calendar.opentimestamps.org",
     "https://bob.btc.calendar.opentimestamps.org" >>

MAX_RESPONSE == 65536

\* The POST of submitToCalendar: {server}/digest with the digest as body.
StampRequest(server, digest) ==
  [server |-> server, path |-> "digest", body |-> digest]

\* submitToCalendar up to its await of fetch.
submitToCalendar(c, server, digest) ==
  Suspend([c EXCEPT !.posts = Append(@, StampRequest(server, digest))],
          [fn |-> "submitToCalendar", at |-> 112, server |-> server])

\* submitToCalendar resumed with x: the status of the response at the await
\* of fetch (0: fetch throws), the body at that of arrayBuffer().
submitToCalendarResumes(c, f, x) ==
  IF f.at = 112
  THEN IF x = 0 THEN Throw(c, "fetch failed")
       ELSE IF ~ResponseOk(x) THEN Throw(c, "HTTP status")
       ELSE Suspend(c, [f EXCEPT !.at = 127])
  ELSE IF Len(x) = 0 THEN Throw(c, "Empty response")
  ELSE IF Len(x) > MAX_RESPONSE THEN Throw(c, "Response too large")
  ELSE Return(c, x)

\* FF data for every response but the last, then the last one.
RECURSIVE writeResponses(_, _)
writeResponses(responses, k) ==
  IF k = Len(responses) THEN responses[k].data
  ELSE <<TAG_FORK>> \o responses[k].data \o writeResponses(responses, k + 1)

\* The loop over CALENDAR_SERVERS from server f.k, up to the await of
\* submitToCalendar; after the last server, the throw or the file.
submitAll(c, f) ==
  IF f.k <= Len(CALENDAR_SERVERS)
  THEN submitToCalendar(Suspend(c, [f EXCEPT !.at = 58]),
                        CALENDAR_SERVERS[f.k], f.calendarDigest)
  ELSE IF Len(f.responses) = 0
  THEN Throw([c EXCEPT !.errors = f.errors], "No calendar server responded")
  ELSE Return([c EXCEPT !.errors = f.errors],
              HEADER_MAGIC \o writeVaruint(NumOf(1))
                \o <<HASH_OP_TO_TAG("sha256")>> \o f.fileDigest
                \o <<TAG_PREPEND>> \o writeVarbytes(c.nonce)
                \o <<TAG_SHA256>>
                \o writeResponses(f.responses, 1))

\* A stamp is called.
StampCalled(op, fileData, sha256Hex, nonce) ==
  [op |-> op, fileData |-> fileData, sha256Hex |-> sha256Hex,
   nonce |-> nonce, stack |-> <<>>, ret |-> Returned(<<>>),
   posts |-> <<>>, replies |-> <<>>, errors |-> <<>>]

\* stampHash up to its await of sha256(combined).
stampHash(c, sha256Hex) ==
  Then(hexToBytes(sha256Hex), LAMBDA fileDigest :
    IF ~fileDigest.ok THEN Throw(c, fileDigest.err)
    ELSE IF Len(fileDigest.val) # 32
    THEN Throw(c, "Expected 32-byte SHA256 digest")
    ELSE digestSuspends(
           Suspend(c, [fn |-> "stampHash", at |-> 50,
                       fileDigest |-> fileDigest.val,
                       calendarDigest |-> <<>>, k |-> 1,
                       responses |-> <<>>, errors |-> <<>>]),
           "sha256", c.nonce \o fileDigest.val))

\* stampHash resumed, leaving the loop at the first server that fails.
stampHashStopsAtError(c, f) ==
  IF f.at = 50 THEN submitAll(c, [f EXCEPT !.calendarDigest = c.ret.val])
  ELSE IF c.ret.ok
  THEN submitAll(c, [f EXCEPT !.k = @ + 1,
                              !.responses =
                                Append(@, [server |-> CALENDAR_SERVERS[f.k],
                                           data |-> c.ret.val])])
  ELSE submitAll(c, [f EXCEPT !.k = Len(CALENDAR_SERVERS) + 1,
                              !.responses = <<>>,
                              !.errors =
                                Append(@, [server |-> CALENDAR_SERVERS[f.k],
                                           message |-> c.ret.err])])

\* stampHash resumed, putting each response in front of the ones collected
\* before it.
stampHashNewestFirst(c, f) ==
  IF f.at = 50 THEN submitAll(c, [f EXCEPT !.calendarDigest = c.ret.val])
  ELSE IF c.ret.ok
  THEN submitAll(c, [f EXCEPT !.k = @ + 1,
                              !.responses =
                                <<[server |-> CALENDAR_SERVERS[f.k],
                                   data |-> c.ret.val]>> \o @])
  ELSE submitAll(c, [f EXCEPT !.k = @ + 1,
                              !.errors =
                                Append(@, [server |-> CALENDAR_SERVERS[f.k],
                                           message |-> c.ret.err])])

\* stampHash resumed, submitting the file's digest itself.
stampHashPostsFileDigest(c, f) ==
  IF f.at = 50 THEN submitAll(c, [f EXCEPT !.calendarDigest = f.fileDigest])
  ELSE IF c.ret.ok
  THEN submitAll(c, [f EXCEPT !.k = @ + 1,
                              !.responses =
                                Append(@, [server |-> CALENDAR_SERVERS[f.k],
                                           data |-> c.ret.val])])
  ELSE submitAll(c, [f EXCEPT !.k = @ + 1,
                              !.errors =
                                Append(@, [server |-> CALENDAR_SERVERS[f.k],
                                           message |-> c.ret.err])])

\* stampHash resumed: with the calendar digest it enters the loop; with the
\* outcome of submitToCalendar it pushes the response, or the error that
\* the catch clause takes, and goes on with the next server.
stampHashResumes(c, f) ==
  IF f.at = 50 THEN submitAll(c, [f EXCEPT !.calendarDigest = c.ret.val])
  ELSE IF c.ret.ok
  THEN submitAll(c, [f EXCEPT !.k = @ + 1,
                              !.responses =
                                Append(@, [server |-> CALENDAR_SERVERS[f.k],
                                           data |-> c.ret.val])])
  ELSE submitAll(c, [f EXCEPT !.k = @ + 1,
                              !.errors =
                                Append(@, [server |-> CALENDAR_SERVERS[f.k],
                                           message |-> c.ret.err])])

\* stampFile up to its await of sha256(fileData).
stampFile(c) ==
  digestSuspends(Suspend(c, [fn |-> "stampFile", at |-> 104]),
                 "sha256", c.fileData)

\* stampFile resumed with the digest: return stampHash(bytesToHex(digest)),
\* whose promise is the one of the call.
stampFileResumes(c, f) ==
  stampHash([c EXCEPT !.sha256Hex = bytesToHex(c.ret.val)],
            bytesToHex(c.ret.val))

\* What a stamp that has settled comes to: ok = FALSE is a rejected
\* promise (a throw).
StampSettled(c) ==
  [op |-> c.op, fileData |-> c.fileData, sha256Hex |-> c.sha256Hex,
   nonce |-> c.nonce, replies |-> c.replies,
   out |-> [ok |-> c.ret.ok, err |-> c.ret.err, errors |-> c.errors,
            posts |-> c.posts, val |-> c.ret.val]]

\* ------------------------------------------------------------------------
\* Inputs.  Proof files are byte strings put together from wire fragments
\* (a fork marker, attestations, operations), every sequence of at most
\* MaxTokens fragments of an alphabet; the fragments are what the parser
\* reads (parser.ts:179-234).
\* ------------------------------------------------------------------------

MaxTokens == 3

URI_A == <<104, 116, 116, 112, 115, 58, 47, 47, 97>>

URI_B == <<104, 116, 116, 112, 115, 58, 47, 47, 98, 47>>

WireFork == <<TAG_FORK>>

WireHeight(tag, h) ==
  <<TAG_ATTESTATION>> \o tag \o writeVarbytes(writeVaruint(NumOf(h)))

WirePending(uri) ==
  <<TAG_ATTESTATION>> \o ATT_TAG_PENDING
    \o writeVarbytes(writeVarbytes(TextEncode(uri)))

WireUnknown == <<TAG_ATTESTATION>> \o <<1, 2, 3, 4, 5, 6, 7, 8>> \o <<1, 9>>

WireBitcoin == WireHeight(ATT_TAG_BITCOIN, 358391)

WireLitecoin == WireHeight(ATT_TAG_LITECOIN, 5)

WireAppend == <<TAG_APPEND, 2, 170, 187>>

\* A forked branch whose operation cannot be applied, a Pending below it.
WireKeccakBranch == WireFork \o <<TAG_KECCAK256>> \o WirePending(URI_A)

\* A forked branch whose operation can be applied, a Litecoin below it.
WireShaBranch == WireFork \o <<TAG_SHA256>> \o WireLitecoin

RECURSIVE TokenSeqs(_, _)
TokenSeqs(alphabet, n) ==
  IF n = 0 THEN {<<>>}
  ELSE LET shorter == TokenSeqs(alphabet, n - 1)
       IN  shorter \cup {t \o s : t \in alphabet, s \in shorter}

Header(hashOp, digest) ==
  HEADER_MAGIC \o <<1>> \o <<HASH_OP_TO_TAG(hashOp)>> \o digest

HeaderSha256 == Header("sha256", sha256(FILE_1))

\* Files the parser rejects before the tree, and other hash algorithms.
OtherHeaders ==
  { <<0, 1, 2>>,
    [i \in 1..31 |-> 66],
    HEADER_MAGIC \o <<2, TAG_SHA256>> \o sha256(FILE_1),
    HEADER_MAGIC \o <<1, 85>> \o sha256(FILE_1),
    HEADER_MAGIC \o <<1, TAG_SHA256, 1, 2, 3>>,
    Header("sha1", sha1(FILE_1)) \o WireBitcoin,
    Header("ripemd160", ripemd160(FILE_1)) \o WireBitcoin,
    Header("keccak256", sha256(FILE_1)) \o WireBitcoin }

ProofFiles(alphabet) ==
  {HeaderSha256 \o body : body \in TokenSeqs(alphabet, MaxTokens)}
    \cup OtherHeaders

CodecAlphabet ==
  { WireFork, WireBitcoin, WirePending(URI_A), WirePending(URI_B),
    WireLitecoin, WireUnknown, <<TAG_SHA256>>, WireAppend,
    <<TAG_KECCAK256>> }

VerifyAlphabet ==
  { WireFork, WireBitcoin, WirePending(URI_A), <<TAG_SHA256>>,
    WireKeccakBranch, WireShaBranch }

UpgradeAlphabet ==
  { WireFork, WireBitcoin, WirePending(URI_B), <<TAG_SHA256>>,
    WireKeccakBranch }

\* Trees a caller builds in memory, MaxCallerDepth continuations deep.
MaxCallerDepth == 1

CallerAttestations ==
  { [type |-> "bitcoin", height |-> NumOf(358391)],
    [type |-> "pending", uri |-> URI_A],
    [type |-> "unknown", tag |-> <<1, 2, 3, 4, 5, 6, 7, 8>>,
     payload |-> <<9>>] }

CallerOperations ==
  { [type |-> "sha256"], [type |-> "prepend", data |-> <<1>>] }

RECURSIVE CallerTrees(_)
CallerTrees(n) ==
  IF n = 0 THEN {Node(<<a>>, <<>>) : a \in CallerAttestations}
  ELSE LET below == CallerTrees(n - 1)
       IN  below
             \cup {Node(<<>>, << <<op, t>> >>) :
                     op \in CallerOperations, t \in below}
             \cup {Node(<<a>>, << <<op, t>> >>) :
                     a \in CallerAttestations, op \in CallerOperations,
                     t \in below}

CallerFiles ==
  { [hashOp |-> "sha256", fileDigest |-> sha256(FILE_1), timestamp |-> t] :
      t \in CallerTrees(MaxCallerDepth) }

\* ------------------------------------------------------------------------
\* The block explorers a verification may meet.
\* ------------------------------------------------------------------------

BLOCK_HASH == [i \in 1..64 |-> 48]

WRONG_ROOT == [i \in 1..64 |-> 97]

MALFORMED_ROOT == <<122, 122>>

\* U+1F600, a character outside the Basic Multilingual Plane.
GRINNING_FACE == 128512

\* Thirty-two characters that are sixty-four UTF-16 units.
ASTRAL_HASH == [i \in 1..32 |-> GRINNING_FACE]

\* What fetch comes to at the request of a block's hash: no response (0,
\* fetch throws) or success; at the request of the block: a missing page or
\* success.
HashStatuses == {0, 200}

BlockStatuses == {404, 200}

\* The bodies of block-height responses: a hash and a line feed, two
\* characters and, from blockstream.info, thirty-two characters that are
\* sixty-four UTF-16 units.
HashTexts(base) ==
  {BLOCK_HASH \o <<10>>, <<48, 48>>}
    \cup (IF base = BLOCKSTREAM THEN {ASTRAL_HASH} ELSE {})

BlockJson(merkleRoot, timestamp) ==
  [merkleRoot |-> merkleRoot, timestamp |-> timestamp]

\* The bodies of block responses: a block with one of the roots, a JSON
\* without merkle_root and, from blockstream.info, one without timestamp.
BlockBodies(base, roots) ==
  {BlockJson(<<r>>, <<1700>>) : r \in roots}
    \cup {BlockJson(<<>>, <<1700>>)}
    \cup (IF base = BLOCKSTREAM THEN {BlockJson(<<WRONG_ROOT>>, <<>>)}
          ELSE {})

\* The messages at the Bitcoin attestations of a tree: the merkle roots
\* that make one of them verify are their reversals in hex.
RECURSIVE BitcoinMessages(_, _)
BitcoinMessages(ts, msg) ==
  (IF \E i \in 1..Len(ts.attestations) : ts.attestations[i].type = "bitcoin"
   THEN {msg} ELSE {})
    \cup UNION { Then(applyOperation(ts.ops[j][1], msg), LAMBDA m :
                   IF m.ok THEN BitcoinMessages(ts.ops[j][2], m.val) ELSE {})
                 : j \in 1..Len(ts.ops) }

RECURSIVE CountAttestations(_, _)
CountAttestations(ts, type) ==
  LET here == {i \in 1..Len(ts.attestations) : ts.attestations[i].type = type}
      RECURSIVE below(_)
      below(j) == IF j > Len(ts.ops) THEN 0
                  ELSE CountAttestations(ts.ops[j][2], type) + below(j + 1)
  IN  Cardinality(here) + below(1)

\* The attestations of a tree that are reached through operations that all
\* succeed, each with the message it is reached with, attestations of a node
\* before its continuations.
RECURSIVE ReachedAttestations(_, _)
ReachedAttestations(ts, msg) ==
  LET RECURSIVE below(_)
      below(j) ==
        IF j > Len(ts.ops) THEN <<>>
        ELSE Then(applyOperation(ts.ops[j][1], msg), LAMBDA m :
               IF m.ok THEN ReachedAttestations(ts.ops[j][2], m.val)
               ELSE <<>>) \o below(j + 1)
  IN  [i \in 1..Len(ts.attestations) |->
         [att |-> ts.attestations[i], msg |-> msg]] \o below(1)

IsBitcoin(a) == a.att.type = "bitcoin"

IsPending(a) == a.att.type = "pending"

\* The merkle roots an explorer may give during a verification with the
\* proof data: those that make an attestation verify, one that is hex and
\* no block's and, from blockstream.info, one that is not hex.
RootsOf(base, data) ==
  Then(parseOts(data).val, LAMBDA ots :
    {bytesToHex(Reverse(m)) :
       m \in BitcoinMessages(ots.timestamp, ots.fileDigest)}
      \cup {WRONG_ROOT}
      \cup (IF base = BLOCKSTREAM THEN {MALFORMED_ROOT} ELSE {}))

\* The file hashes to the digest the proof stores.
FileMatches(fileData, data) ==
  Then(parseOts(data), LAMBDA ots :
    /\ ots.ok
    /\ Then(hashContents(fileData, ots.val.hashOp), LAMBDA h :
            h.ok /\ h.val = ots.val.fileDigest))

\* The digest is the one the proof stores.
DigestMatches(digestHex, data) ==
  Then(parseOts(data), LAMBDA ots :
    /\ ots.ok
    /\ Then(hexToBytes(digestHex), LAMBDA d :
            d.ok /\ d.val = ots.val.fileDigest))

Files == {FILE_1, FILE_2}

\* The digests of the files, a string that is not hex, and one character of
\* two UTF-16 units.
Digests ==
  { bytesToHex(sha256(FILE_1)), bytesToHex(sha256(FILE_2)),
    bytesToHex(sha1(FILE_1)), MALFORMED_ROOT, <<GRINNING_FACE>> }

\* ------------------------------------------------------------------------
\* The calendars an upgrade may meet.
\* ------------------------------------------------------------------------

MaxUpgrades == 2

SUB_ATTESTATION == WireBitcoin

SUB_TREE ==
  WireFork \o WireBitcoin \o WireFork \o WireLitecoin
    \o <<TAG_SHA1>> \o WireUnknown

SUB_PENDING == <<TAG_REVERSE>> \o WirePending(URI_A)

SUB_GARBAGE == <<85>>

\* A Litecoin attestation followed by 64 KiB of zero bytes.
SUB_OVERSIZE == WireLitecoin \o [i \in 1..MAX_RESPONSE |-> 0]

Calendar(status, body) == [status |-> status, body |-> body]

\* What fetch comes to at a calendar: no response (0, fetch throws), not
\* found, a server error, success; once a second call has been made, not
\* found or success.
CalendarStatuses(made) ==
  IF made < 2 THEN {0, 404, 500, 200} ELSE {404, 200}

\* The bodies of a calendar's responses; once a second call has been made,
\* the sub-tree with two attestations and a continuation.
CalendarBodies(made) ==
  IF made < 2
  THEN { <<>>, SUB_ATTESTATION, SUB_TREE, SUB_PENDING, SUB_GARBAGE,
         SUB_OVERSIZE }
  ELSE { SUB_TREE }

\* ------------------------------------------------------------------------
\* The calendars a stamp may meet, and the nonces the random source gives.
\* ------------------------------------------------------------------------

\* All zero bytes, and the bytes 240..255.
Nonces == {NONCE_ZEROS, NONCE_HIGH}

\* makePendingResponse of stamp.test.ts: the URI in one varbytes.
MakePendingResponse(uri) ==
  <<TAG_ATTESTATION>> \o ATT_TAG_PENDING \o writeVarbytes(TextEncode(uri))

\* What fetch comes to at a calendar that is stamped at: no response (0,
\* fetch throws), a server error, success.
StampStatuses == {0, 500, 200}

\* The bodies of the responses: empty; over 64 KiB; a Pending; an operation
\* with a Pending below it; a node of two sibling attestations; the test's
\* response.
StampBodies ==
  { <<>>,
    [i \in 1..(MAX_RESPONSE + 1) |-> 0],
    WirePending(URI_A),
    <<TAG_SHA256>> \o WirePending(URI_B),
    WireFork \o WireBitcoin \o WirePending(URI_A),
    MakePendingResponse(URI_A) }

\* The digests a caller passes: a SHA-256 digest in hex, "aabb", "not-hex"
\* and "a".
StampDigests ==
  { bytesToHex(sha256(FILE_1)), <<97, 97, 98, 98>>,
    <<110, 111, 116, 45, 104, 101, 120>>, <<97>> }

\* ------------------------------------------------------------------------
\* Inputs of the low-level readers and writers.
\* ------------------------------------------------------------------------

\* Numbers of the safe range, each given by its eight groups of seven bits
\* (the top group has four): group i counts 2^(7i).
VaruintGroups ==
  [1..7 -> {0, 1, 127}] \X {0, 1, 15}

GroupsToNum(g) ==
  << g[1][5] + g[1][6] * 2^7 + g[1][7] * 2^14 + g[2] * 2^21,
     g[1][1] + g[1][2] * 2^7 + g[1][3] * 2^14 + g[1][4] * 2^21 >>

\* Also the lengths around the cap of readVarbytes, and 2^53 - 1.
VaruintValues ==
  {GroupsToNum(g) : g \in VaruintGroups}
    \cup {NumOf(42), NumOf(300), NumOf(1000000), NumOf(MAX_VARBYTES - 1),
          NumOf(MAX_VARBYTES), NumOf(MAX_VARBYTES + 1),
          <<2^25 - 1, 2^28 - 1>>}

\* Encodings as they may arrive: up to MaxContinuation bytes with the
\* continuation bit, a final byte or none, other bytes behind.
MaxContinuation == 9

RawVaruints ==
  { [i \in 1..k |-> c] \o f \o rest :
      k \in 0..MaxContinuation, c \in {128, 129, 255},
      f \in {<<>>, <<0>>, <<1>>, <<15>>, <<16>>, <<127>>},
      rest \in {<<>>, <<170, 187>>} }

\* The number of bytes after which 2 ** shift is Infinity: shift grows by 7
\* with every byte, and 2 ** 1024 is Infinity.
InfiniteShiftBytes == 1024 \div 7 + 1

\* A varuint of k bytes with the continuation bit and a last byte 0, its
\* first byte being first: read as NaN from k = InfiniteShiftBytes on.
LongVaruint(first, k) ==
  [i \in 1..(k + 1) |-> IF i = 1 THEN first ELSE IF i <= k THEN 128 ELSE 0]

\* Such encodings around the length at which NaN appears; the last one is
\* 2^21 in LEB128.
LongVaruints ==
  { LongVaruint(first, k) \o rest :
      first \in {128, 129},
      k \in (InfiniteShiftBytes - 1)..(InfiniteShiftBytes + 1),
      rest \in {<<>>, <<170, 187>>} }
    \cup { <<128, 128, 128>> \o LongVaruint(129, InfiniteShiftBytes) }

\* Proof files in which a varuint is read as NaN: the version, the length
\* of an append payload, the length of an attestation payload, the length
\* of the URI of a Pending, the height of a Bitcoin attestation.
NaNFiles ==
  Then(LongVaruint(128, InfiniteShiftBytes), LAMBDA nan :
    { HEADER_MAGIC \o nan \o <<TAG_SHA256>> \o sha256(FILE_1) \o WireBitcoin,
      HeaderSha256 \o <<TAG_APPEND>> \o nan \o <<170, 187>> \o WireBitcoin,
      HeaderSha256 \o <<TAG_ATTESTATION, 1, 2, 3, 4, 5, 6, 7, 8>> \o nan
        \o <<170, 187>> \o WireBitcoin,
      HeaderSha256 \o <<TAG_ATTESTATION>> \o ATT_TAG_PENDING \o nan
        \o WireBitcoin,
      HeaderSha256 \o <<TAG_ATTESTATION>> \o ATT_TAG_PENDING
        \o writeVarbytes(nan \o TextEncode(URI_A)),
      HeaderSha256 \o <<TAG_ATTESTATION>> \o ATT_TAG_BITCOIN
        \o writeVarbytes(nan) })

\* A varbytes field of two bytes, and one of exactly the largest length.
FullFields ==
  { writeVaruint(NumOf(n)) \o [i \in 1..n |-> 187] \o <<170>> :
      n \in {2, MAX_VARBYTES} }

\* Proof files with a varbytes field of a declared length around the cap:
\* an append payload, a prepend payload, an attestation payload.
CappedFiles ==
  UNION {
    { HeaderSha256 \o field \o writeVaruint(NumOf(n)) \o rest :
        field \in {<<TAG_APPEND>>, <<TAG_PREPEND>>,
                   <<TAG_ATTESTATION>> \o ATT_TAG_BITCOIN,
                   <<TAG_ATTESTATION>> \o ATT_TAG_PENDING,
                   <<TAG_ATTESTATION, 1, 2, 3, 4, 5, 6, 7, 8>>},
        rest \in {<<>>, <<170, 187>> \o WireBitcoin,
                  [i \in 1..n |-> 1] \o WireBitcoin} } :
    n \in {2, MAX_VARBYTES, MAX_VARBYTES + 1} }

\* ------------------------------------------------------------------------
\* The state of a session with the library.
\*   otsBytes  the proof file at hand, bytes
\*   mem       <<>>, or <<[ots, origin]>>: the OtsFile held in memory and
\*             where it came from ("parsed", "caller" or "upgraded")
\*   written   <<>>, or the value of mem that otsBytes was serialised from
\*   calls     the asynchronous calls under way, in the order they were made
\*   last      the last call that ended: its name, its inputs, its outcome
\*   upgrades  the number of upgradeProof calls made
\* ------------------------------------------------------------------------

VARIABLES otsBytes, mem, written, calls, last, upgrades

vars == <<otsBytes, mem, written, calls, last, upgrades>>

NoCall == [op |-> "none"]

\* The calls under way without the n-th.
Without(n) == SubSeq(calls, 1, n - 1) \o SubSeq(calls, n + 1, Len(calls))

\* The calls under way once the n-th, or a new one when n is one more than
\* their number, stands as c after a turn: gone when it has settled.
Follows(n, c) ==
  IF c.stack = <<>> THEN Without(n)
  ELSE [k \in 1..(IF n > Len(calls) THEN n ELSE Len(calls)) |->
          IF k = n THEN c ELSE calls[k]]

\* The calls under way whose innermost suspended function is at one of the
\* awaits.
AtAwait(fns, lines) ==
  {n \in 1..Len(calls) :
     Top(calls[n]).fn \in fns /\ Top(calls[n]).at \in lines}

\* writeOts has been called and does not return: nothing else runs.
Hung == last.op = "writeOts" /\ ~last.returned

\* const ots = parseOts(otsBytes): a throw leaves the variable alone.
ParseOts ==
  LET out == parseOts(otsBytes) IN
  /\ ~Hung
  /\ last' = [op |-> "parseOts", out |-> out]
  /\ mem' = IF out.ok THEN <<[ots |-> out.val, origin |-> "parsed"]>> ELSE mem
  /\ UNCHANGED <<otsBytes, written, calls, upgrades>>

\* otsBytes = writeOts(ots)
WriteOts ==
  /\ mem # <<>>
  /\ ~Hung
  /\ Then(writeOts(mem[1].ots), LAMBDA bytes :
       /\ otsBytes' = IF Returns(bytes) THEN bytes ELSE otsBytes
       /\ written' = IF Returns(bytes) THEN mem ELSE written
       /\ last' = [op |-> "writeOts", returned |-> Returns(bytes)])
  /\ UNCHANGED <<mem, calls, upgrades>>

\* A verification has run a turn and stands as c: suspended again, or
\* settled.  It changes nothing but itself.
VerifyGoesOn(n, c) ==
  /\ calls' = Follows(n, c)
  /\ last' = IF c.stack = <<>> THEN VerifySettled(c) ELSE last
  /\ UNCHANGED <<otsBytes, mem, written, upgrades>>

\* verifyFile(fileData, otsBytes) is called and runs to its first await.  A
\* verification reads otsBytes and changes nothing, so a second one starts
\* from the state the first one starts from and the turns of two of them
\* do not bear on each other: a session is followed for one call.
VerifyFile ==
  /\ last = NoCall
  /\ calls = <<>>
  /\ \E fileData \in Files : VerifyGoesOn(1, verifyFile(fileData, otsBytes))

\* verifyDigest(digestHex, otsBytes) is called and runs to its first await.
VerifyDigest ==
  /\ last = NoCall
  /\ calls = <<>>
  /\ \E digestHex \in Digests :
       VerifyGoesOn(1, verifyDigest(digestHex, otsBytes))

\* await crypto.subtle.digest(...) ends in sha256 or sha1 (crypto.ts:14,
\* crypto.ts:25), which returns the digest; its caller is resumed in a turn
\* of its own.
DigestArrives ==
  /\ \E n \in AtAwait({"sha256", "sha1"}, {14, 25}) :
       calls' = [calls EXCEPT ![n] = digestResumes(Below(@), Top(@))]
  /\ UNCHANGED <<otsBytes, mem, written, last, upgrades>>

\* await hashContents(fileData, ots.hashOp) ends (verify.ts:27).
VerifyFileResumes ==
  \E n \in AtAwait({"verifyFile"}, {27}) :
    VerifyGoesOn(n, verifyFileResumes(Below(calls[n]), Top(calls[n])))

\* await checkAttestation(att, msg), await applyOperation(op, msg) or await
\* walkTimestamp(child, ...) ends (verify.ts:96, 102, 103).
WalkTimestampResumes ==
  \E n \in AtAwait({"walkTimestamp"}, {96, 102, 103}) :
    VerifyGoesOn(n,
                 walkTimestampResumes(Below(calls[n]), Top(calls[n])))

\* await getBlockInfo(height) ends (verify.ts:133).
VerifyBitcoinResumes ==
  \E n \in AtAwait({"verifyBitcoin"}, {133}) :
    VerifyGoesOn(n,
                 verifyBitcoinResumes(Below(calls[n]), Top(calls[n])))

\* await getBlockInfoFrom(...) ends (crypto.ts:59, crypto.ts:61).
GetBlockInfoResumes ==
  \E n \in AtAwait({"getBlockInfo"}, {59, 61}) :
    VerifyGoesOn(n,
                 getBlockInfoResumes(Below(calls[n]), Top(calls[n])))

\* The response to the request under way has arrived, or its body.
Got(c, at, x) ==
  Then(Len(c.lookups), LAMBDA k :
  Then(Len(c.lookups[k].reqs), LAMBDA q :
    IF at \in {67, 80}
    THEN [c EXCEPT !.lookups[k].reqs[q].response = <<x>>]
    ELSE [c EXCEPT !.lookups[k].reqs[q].body = <<x>>]))

\* await fetch(...) ends in getBlockInfoFrom (crypto.ts:67, crypto.ts:80):
\* a response with a status, or a throw.
FetchResponds ==
  \E n \in AtAwait({"getBlockInfoFrom"}, {67, 80}) :
  \E status \in IF Top(calls[n]).at = 67 THEN HashStatuses
                ELSE BlockStatuses :
    VerifyGoesOn(n,
                 getBlockInfoFromResumes(
                   Got(Below(calls[n]), Top(calls[n]).at, status),
                   Top(calls[n]), status))

\* await hashResponse.text() or await blockResponse.json() ends
\* (crypto.ts:73, crypto.ts:86).
BodyArrives ==
  \E n \in AtAwait({"getBlockInfoFrom"}, {73, 86}) :
  \E body \in IF Top(calls[n]).at = 73
              THEN HashTexts(Top(calls[n]).baseUrl)
              ELSE BlockBodies(Top(calls[n]).baseUrl,
                               RootsOf(Top(calls[n]).baseUrl, otsBytes)) :
    VerifyGoesOn(n,
                 getBlockInfoFromResumes(
                   Got(Below(calls[n]), Top(calls[n]).at, body),
                   Top(calls[n]), body))

\* An upgrade has run a turn and stands as r.c, suspended again or
\* settled, with the heap as r.heap.
UpgradeGoesOn(n, r) ==
  Then([mem[1] EXCEPT !.heap = r.heap,
                      !.origin = IF r.heap = mem[1].heap THEN @
                                 ELSE "upgraded"],
       LAMBDA file :
         /\ calls' = Follows(n, r.c)
         /\ mem' = <<file>>
         /\ last' = IF r.c.stack = <<>> THEN UpgradeSettled(r.c, file)
                    ELSE last
         /\ UNCHANGED <<otsBytes, written, upgrades>>)

\* upgradeProof(ots) is called on the file in memory and runs to its first
\* await.  It may be called while an earlier call on the file is under
\* way: neither of the two is alone then.
UpgradeProof ==
  /\ mem # <<>>
  /\ upgrades < MaxUpgrades
  /\ last.op \in {"none", "upgradeProof"}
  /\ Then(upgradeProof(UpgradeStart(mem[1], calls = <<>>), mem[1],
                       hasPendingAttestation(
                         TreeOf(mem[1].heap, mem[1].ots.timestamp))),
          LAMBDA r :
     Then([mem[1] EXCEPT !.heap = r.heap,
                         !.origin = IF r.heap = mem[1].heap THEN @
                                    ELSE "upgraded"],
          LAMBDA file :
            /\ calls' = [k \in 1..(Len(calls)
                                    + IF r.c.stack = <<>> THEN 0 ELSE 1) |->
                           IF k <= Len(calls)
                           THEN [calls[k] EXCEPT !.alone = FALSE]
                           ELSE r.c]
            /\ mem' = <<file>>
            /\ last' = IF r.c.stack = <<>> THEN UpgradeSettled(r.c, file)
                       ELSE last))
  /\ upgrades' = upgrades + 1
  /\ UNCHANGED <<otsBytes, written>>

\* await fetchUpgrade(att.uri, msg), await applyOperation(op, msg) or await
\* upgradeTimestamp(child, ...) ends (upgrade.ts:62, 90, 91).
UpgradeTimestampResumes ==
  \E n \in AtAwait({"upgradeTimestamp"}, {62, 90, 91}) :
    UpgradeGoesOn(n, upgradeTimestampResumes(Below(calls[n]), Top(calls[n]),
                                             mem[1].heap))

\* await upgradeTimestamp(ots.timestamp, ...) ends (upgrade.ts:38).
UpgradeProofResumes ==
  \E n \in AtAwait({"upgradeProof"}, {38}) :
    UpgradeGoesOn(n, Ran(upgradeProofResumes(Below(calls[n]), Top(calls[n])),
                         mem[1].heap))

\* The reply to the last request has arrived: the response, or its body.
Replied(c, at, x) ==
  IF at = 105 THEN [c EXCEPT !.cals = Append(@, Calendar(x, <<>>))]
  ELSE [c EXCEPT !.cals[Len(c.cals)].body = x]

CalendarTurn(n, x) ==
  UpgradeGoesOn(n, Ran(fetchUpgradeResumes(
                         Replied(Below(calls[n]), Top(calls[n]).at, x),
                         Top(calls[n]), x),
                       mem[1].heap))

\* await fetch(url, ...) ends in fetchUpgrade (upgrade.ts:105): a response
\* with a status, or a throw.
CalendarResponds ==
  \E n \in AtAwait({"fetchUpgrade"}, {105}) :
  \E status \in CalendarStatuses(upgrades) : CalendarTurn(n, status)

\* await response.arrayBuffer() ends (upgrade.ts:121).
CalendarBodyArrives ==
  \E n \in AtAwait({"fetchUpgrade"}, {121}) :
  \E body \in CalendarBodies(upgrades) : CalendarTurn(n, body)

\* A stamp has run a turn and stands as c: suspended again, or settled,
\* and then the caller's variable takes the bytes returned.
StampGoesOn(n, c) ==
  /\ calls' = Follows(n, c)
  /\ last' = IF c.stack = <<>> THEN StampSettled(c) ELSE last
  /\ otsBytes' = IF c.stack = <<>> /\ c.ret.ok THEN c.ret.val ELSE otsBytes
  /\ UNCHANGED <<mem, written, upgrades>>

\* otsBytes = await stampHash(sha256Hex): the call runs to its first await.
\* A stamp reads no state, so a session is followed for one call.
StampHash ==
  /\ last = NoCall
  /\ calls = <<>>
  /\ \E sha256Hex \in StampDigests, nonce \in Nonces :
       StampGoesOn(1, stampHash(StampCalled("stampHash", <<>>, sha256Hex,
                                            nonce),
                                sha256Hex))

\* otsBytes = await stampFile(fileData): the call runs to its first await.
StampFile ==
  /\ last = NoCall
  /\ calls = <<>>
  /\ \E fileData \in Files, nonce \in Nonces :
       StampGoesOn(1, stampFile(StampCalled("stampFile", fileData, <<>>,
                                            nonce)))

\* await sha256(fileData) ends (stamp.ts:104).
StampFileResumes ==
  \E n \in AtAwait({"stampFile"}, {104}) :
    StampGoesOn(n, stampFileResumes(Below(calls[n]), Top(calls[n])))

\* await sha256(combined) or await submitToCalendar(server, calendarDigest)
\* ends (stamp.ts:50, stamp.ts:58).
StampHashResumes ==
  \E n \in AtAwait({"stampHash"}, {50, 58}) :
    StampGoesOn(n, stampHashResumes(Below(calls[n]), Top(calls[n])))

\* The reply to the last request has arrived: the response, or its body.
Received(c, at, x) ==
  IF at = 112 THEN [c EXCEPT !.replies = Append(@, Calendar(x, <<>>))]
  ELSE [c EXCEPT !.replies[Len(c.replies)].body = x]

StampTurn(n, x) ==
  StampGoesOn(n, submitToCalendarResumes(
                   Received(Below(calls[n]), Top(calls[n]).at, x),
                   Top(calls[n]), x))

\* await fetch(url, ...) ends in submitToCalendar (stamp.ts:112): a
\* response with a status, or a throw.
StampResponds ==
  \E n \in AtAwait({"submitToCalendar"}, {112}) :
  \E status \in StampStatuses : StampTurn(n, status)

\* await response.arrayBuffer() ends (stamp.ts:127).
StampBodyArrives ==
  \E n \in AtAwait({"submitToCalendar"}, {127}) :
  \E body \in StampBodies : StampTurn(n, body)

\* writeVaruint(buf, val) on an empty buffer.
WriteVaruint ==
  /\ last = NoCall
  /\ otsBytes = <<>>
  /\ \E val \in VaruintValues :
       /\ otsBytes' = writeVaruint(val)
       /\ written' = <<val>>
       /\ last' = [op |-> "writeVaruint", val |-> val]
  /\ UNCHANGED <<mem, calls, upgrades>>

\* new Cursor(otsBytes).readVaruint()
ReadVaruint ==
  /\ last.op \in {"none", "writeVaruint"}
  /\ last' = [op |-> "readVaruint", out |-> readVaruint(otsBytes, 0)]
  /\ UNCHANGED <<otsBytes, mem, written, calls, upgrades>>

\* new Cursor(otsBytes).readVarbytes()
ReadVarbytes ==
  /\ last.op \in {"none", "writeVaruint"}
  /\ last' = [op |-> "readVarbytes", out |-> readVarbytes(otsBytes, 0)]
  /\ UNCHANGED <<otsBytes, mem, written, calls, upgrades>>

\* writeAttestation(buf, att) on an empty buffer.
WriteAttestation ==
  /\ last = NoCall
  /\ otsBytes = <<>>
  /\ \E att \in CallerAttestations :
       /\ otsBytes' = writeAttestation(att)
       /\ written' = <<att>>
       /\ last' = [op |-> "writeAttestation", att |-> att]
  /\ UNCHANGED <<mem, calls, upgrades>>

\* parseTimestampBranch on a buffer that starts with the attestation marker:
\* the marker is consumed, parseAttestation reads what follows.
ParseAttestation ==
  /\ last.op \in {"none", "writeAttestation"}
  /\ Len(otsBytes) > 0
  /\ otsBytes[1] = TAG_ATTESTATION
  /\ last' = [op |-> "parseAttestation", out |-> parseAttestation(otsBytes, 1)]
  /\ UNCHANGED <<otsBytes, mem, written, calls, upgrades>>

\* A session that reads and writes proof files.
InitCodec ==
  /\ \/ otsBytes \in ProofFiles(CodecAlphabet) \cup NaNFiles /\ mem = <<>>
     \/ /\ otsBytes = <<>>
        /\ mem \in {<<[ots |-> o, origin |-> "caller"]>> : o \in CallerFiles}
  /\ written = <<>>
  /\ calls = <<>>
  /\ last = NoCall
  /\ upgrades = 0

NextCodec == ParseOts \/ WriteOts

SpecCodec == InitCodec /\ [][NextCodec]_vars

\* A session that verifies a proof file.
InitVerify ==
  /\ otsBytes \in ProofFiles(VerifyAlphabet)
  /\ mem = <<>>
  /\ written = <<>>
  /\ calls = <<>>
  /\ last = NoCall
  /\ upgrades = 0

NextVerify ==
  \/ VerifyFile
  \/ VerifyDigest
  \/ DigestArrives
  \/ VerifyFileResumes
  \/ WalkTimestampResumes
  \/ VerifyBitcoinResumes
  \/ GetBlockInfoResumes
  \/ FetchResponds
  \/ BodyArrives

SpecVerify == InitVerify /\ [][NextVerify]_vars

\* A session that upgrades a proof read from a file.
InitUpgrade ==
  /\ otsBytes \in {b \in ProofFiles(UpgradeAlphabet) : parseOts(b).ok}
  /\ mem = <<[ots |-> [parseOts(otsBytes).val EXCEPT !.timestamp = 1],
               heap |-> HeapOf(parseOts(otsBytes).val.timestamp),
               origin |-> "parsed"]>>
  /\ written = <<>>
  /\ calls = <<>>
  /\ last = NoCall
  /\ upgrades = 0

NextUpgrade ==
  \/ UpgradeProof
  \/ DigestArrives
  \/ UpgradeTimestampResumes
  \/ UpgradeProofResumes
  \/ CalendarResponds
  \/ CalendarBodyArrives

SpecUpgrade == InitUpgrade /\ [][NextUpgrade]_vars

\* A session that stamps; the digests it looks up are the computed ones.
InitStamp ==
  /\ Sha256KnownIsComputed
  /\ otsBytes = <<>>
  /\ mem = <<>>
  /\ written = <<>>
  /\ calls = <<>>
  /\ last = NoCall
  /\ upgrades = 0

NextStamp ==
  \/ StampHash
  \/ StampFile
  \/ DigestArrives
  \/ StampFileResumes
  \/ StampHashResumes
  \/ StampResponds
  \/ StampBodyArrives

SpecStamp == InitStamp /\ [][NextStamp]_vars

\* A session with the low-level readers and writers.
InitCursor ==
  /\ otsBytes \in {<<>>} \cup RawVaruints \cup LongVaruints \cup CappedFiles
                  \cup FullFields \cup NaNFiles
                  \cup {WirePending(URI_A), WirePending(URI_B), WireBitcoin,
                        MakePendingResponse(URI_A)}
  /\ mem = <<>>
  /\ written = <<>>
  /\ calls = <<>>
  /\ last = NoCall
  /\ upgrades = 0

NextCursor ==
  \/ WriteVaruint
  \/ ReadVaruint
  \/ ReadVarbytes
  \/ WriteAttestation
  \/ ParseAttestation
  \/ ParseOts

SpecCursor == InitCursor /\ [][NextCursor]_vars
\* ------------------------------------------------------------------------
\* The codec's round trips
\* ------------------------------------------------------------------------

\* The last call parsed bytes that writeOts produced from written[1].ots.
ReadBack == last.op = "parseOts" /\ written # <<>>

\* C1: a proof file that parseOts accepts, written back by writeOts and
\* parsed again, parses, and to the tree of the first parse: the same hashOp,
\* fileDigest, attestations and continuations at every node.
C1_ReparseGivesParsedTree ==
  (ReadBack /\ written[1].origin = "parsed")
    => (last.out.ok /\ last.out.val = written[1].ots)

\* C2: every OtsFile, whoever built it, written by writeOts and parsed by
\* parseOts, parses to itself (attestations and continuations are kept in
\* two lists, so that the order of branches needs no normalisation).
C2_ParseOfWriteIsIdentity ==
  ReadBack => (last.out.ok /\ last.out.val = written[1].ots)

\* ------------------------------------------------------------------------
\* Claims: the explorers
\* ------------------------------------------------------------------------

\* The requests of a lookup made to the explorer at base, in order.
RequestsTo(lookup, base) ==
  SelectSeq(lookup.reqs, LAMBDA r : r.base = base)

\* The explorer that got the requests answered both steps of a lookup: 2xx
\* and a hash of 64 UTF-16 units (once trimmed), then 2xx and a JSON with
\* merkle_root and timestamp.
ExplorerSucceeds(reqs) ==
  /\ Len(reqs) = 2
  /\ \A q \in 1..2 :
       /\ reqs[q].response # <<>>
       /\ ResponseOk(reqs[q].response[1])
       /\ reqs[q].body # <<>>
  /\ Len(Utf16(Trim(reqs[1].body[1]))) = 64
  /\ reqs[2].body[1].merkleRoot # <<>>
  /\ reqs[2].body[1].timestamp # <<>>

\* One of the explorers of a lookup gave the block.
Answered(lookup) ==
  \/ ExplorerSucceeds(RequestsTo(lookup, BLOCKSTREAM))
  \/ ExplorerSucceeds(RequestsTo(lookup, MEMPOOL))

\* The block that the explorer at base gave.
BlockFrom(lookup, base) ==
  Then(RequestsTo(lookup, base), LAMBDA reqs :
    [height |-> lookup.height, blockHash |-> Trim(reqs[1].body[1]),
     merkleRoot |-> reqs[2].body[1].merkleRoot[1],
     timestamp |-> reqs[2].body[1].timestamp[1]])

\* The block a lookup that was answered comes to.
AnswerOf(lookup) ==
  IF ExplorerSucceeds(RequestsTo(lookup, BLOCKSTREAM))
  THEN BlockFrom(lookup, BLOCKSTREAM)
  ELSE BlockFrom(lookup, MEMPOOL)

\* block-height, then block if it came to that.
StepsInOrder(reqs) ==
  /\ Len(reqs) \in {1, 2}
  /\ reqs[1].path = "block-height"
  /\ Len(reqs) = 2 => reqs[2].path = "block"

\* The lookup asked blockstream.info first and mempool.space only after a
\* failure, and came to the answer of the first explorer that succeeded.
PrimaryThenFallback(lookup) ==
  /\ lookup.info # <<>>
  /\ lookup.reqs = RequestsTo(lookup, BLOCKSTREAM)
                     \o RequestsTo(lookup, MEMPOOL)
  /\ StepsInOrder(RequestsTo(lookup, BLOCKSTREAM))
  /\ ExplorerSucceeds(RequestsTo(lookup, BLOCKSTREAM))
       => /\ RequestsTo(lookup, MEMPOOL) = <<>>
          /\ lookup.info[1] = Returned(BlockFrom(lookup, BLOCKSTREAM))
  /\ ~ExplorerSucceeds(RequestsTo(lookup, BLOCKSTREAM))
       => /\ StepsInOrder(RequestsTo(lookup, MEMPOOL))
          /\ lookup.info[1].ok = ExplorerSucceeds(RequestsTo(lookup, MEMPOOL))
  /\ ~lookup.info[1].ok <=> ~Answered(lookup)

\* C26: getBlockInfo queries blockstream.info first (block-height, then
\* block) and queries mempool.space only after a step of blockstream.info
\* has failed; when blockstream.info succeeds the result is its answer and
\* mempool.space is not queried; the lookup fails only if both fail.
C26_PrimaryThenFallback ==
  last.op \in {"verifyFile", "verifyDigest"} =>
    \A k \in 1..Len(last.out.lookups) :
      PrimaryThenFallback(last.out.lookups[k])

\* blockstream.info failed at its second step, mempool.space was asked
\* after it and its answer verified the attestation.
C26_Witness ==
  /\ last.op \in {"verifyFile", "verifyDigest"}
  /\ \E k \in 1..Len(last.out.lookups) :
       /\ Len(RequestsTo(last.out.lookups[k], BLOCKSTREAM)) = 2
       /\ ExplorerSucceeds(RequestsTo(last.out.lookups[k], MEMPOOL))
       /\ last.out.lookups[k].info[1]
            = Returned(BlockFrom(last.out.lookups[k], MEMPOOL))
  /\ \E i \in 1..Len(last.out.results) :
       last.out.results[i].status = "verified"

\* ------------------------------------------------------------------------
\* Verification
\* ------------------------------------------------------------------------

VerifyCall == last.op \in {"verifyFile", "verifyDigest"}

\* The last call was a verification that got past parsing and the digest
\* check.
ChecksPassed ==
  \/ last.op = "verifyFile" /\ FileMatches(last.input, otsBytes)
  \/ last.op = "verifyDigest" /\ DigestMatches(last.input, otsBytes)

\* The number of operations reached that fail.
RECURSIVE FailedOperations(_, _)
FailedOperations(ts, msg) ==
  LET RECURSIVE below(_)
      below(j) ==
        IF j > Len(ts.ops) THEN 0
        ELSE LET m == applyOperation(ts.ops[j][1], msg)
             IN  (IF m.ok THEN FailedOperations(ts.ops[j][2], m.val) ELSE 1)
                   + below(j + 1)
  IN  below(1)

IsOperationError(r) == r.status = "error" /\ r.message = "Operation failed"

IsAttestationResult(r) == ~IsOperationError(r)

IsBitcoinResult(r) ==
  \/ r.status \in {"verified", "failed"}
  \/ r.status = "error" /\ r.message = "Could not fetch Bitcoin block"

\* Result r is an outcome of attestation a.
Answers(r, a) ==
  CASE a.type = "bitcoin" -> IsBitcoinResult(r) /\ r.height = a.height
    [] a.type = "pending" -> r.status = "pending" /\ r.uri = a.uri
    [] a.type = "litecoin" ->
         r = [status |-> "skipped", height |-> a.height,
              reason |-> "Litecoin block - not verified"]
    [] a.type = "ethereum" ->
         r = [status |-> "skipped", height |-> a.height,
              reason |-> "Ethereum block - not verified"]
    [] a.type = "unknown" ->
         r = [status |-> "skipped", tag |-> bytesToHex(a.tag),
              reason |-> "Unknown attestation type"]

\* C3: verification never short-circuits.  Once parsing and the digest check
\* have passed, verifyFile and verifyDigest return, in the order of the walk,
\* one result for every attestation reached through operations that all
\* succeed, whatever the other attestations and paths come to.
C3_EveryReachedAttestationReported ==
  (VerifyCall /\ ChecksPassed) =>
    LET ots == parseOts(otsBytes).val
        reached == ReachedAttestations(ots.timestamp, ots.fileDigest)
        got == SelectSeq(last.out.results, IsAttestationResult)
    IN  /\ last.out.ok
        /\ Len(got) = Len(reached)
        /\ \A k \in 1..Len(reached) : Answers(got[k], reached[k].att)

\* A branch whose operation failed, and the Bitcoin attestation of a sibling
\* branch reported after it.
C3_Witness ==
  /\ VerifyCall /\ ChecksPassed /\ last.out.ok
  /\ \E i, j \in 1..Len(last.out.results) :
       /\ i < j
       /\ IsOperationError(last.out.results[i])
       /\ last.out.results[j].status = "verified"

\* The results of the Bitcoin attestations, in order: the k-th belongs to
\* the k-th block lookup.
BitcoinResults == SelectSeq(last.out.results, IsBitcoinResult)

\* C4: at a Bitcoin(h) attestation reached with message msg, when the lookup
\* of block h succeeds with the merkle root r, a hex string, the result is
\* Verified{h, blockHash, blockTime} if msg = reverse(hex_decode(r)) and
\* Failed{h, expected = reverse(hex_decode(r)), got = msg} if not.
C4_VerifiedIffReversedRoot ==
  (VerifyCall /\ last.out.ok) =>
    /\ Len(BitcoinResults) = Len(last.out.lookups)
    /\ \A k \in 1..Len(last.out.lookups) :
         LET h == last.out.lookups[k].height
             msg == last.out.lookups[k].msg
             block == AnswerOf(last.out.lookups[k])
         IN  (Answered(last.out.lookups[k])
                /\ hexToBytes(block.merkleRoot).ok) =>
               LET expected == Reverse(hexToBytes(block.merkleRoot).val)
               IN  BitcoinResults[k] =
                     IF msg = expected
                     THEN [status |-> "verified", height |-> h,
                           blockHash |-> block.blockHash,
                           blockTime |-> block.timestamp]
                     ELSE [status |-> "failed", height |-> h,
                           expected |-> expected, got |-> msg]

\* A call that met a matching root at one attestation and a root that is
\* hex but not the message's at another.
C4_Witness ==
  /\ VerifyCall /\ last.out.ok
  /\ \E i, j \in 1..Len(last.out.lookups) :
       /\ Answered(last.out.lookups[i])
       /\ BitcoinResults[i].status = "verified"
       /\ Answered(last.out.lookups[j])
       /\ BitcoinResults[j].status = "failed"
       /\ BitcoinResults[j].expected # <<>>

\* The supplied data, or the supplied digest, is not what the proof stores.
DigestDiffers ==
  LET ots == parseOts(otsBytes) IN
  /\ VerifyCall
  /\ ots.ok
  /\ \/ /\ last.op = "verifyFile"
        /\ LET h == hashContents(last.input, ots.val.hashOp)
           IN  h.ok /\ h.val # ots.val.fileDigest
     \/ /\ last.op = "verifyDigest"
        /\ LET d == hexToBytes(last.input)
           IN  d.ok /\ d.val # ots.val.fileDigest

\* C5: when the hash of the data given to verifyFile, or the digest given to
\* verifyDigest, differs from the fileDigest of the proof, the call throws a
\* digest-mismatch error before any walk: no operation has been applied, no
\* block looked up, and no result list is returned.
C5_MismatchThrownBeforeWalk ==
  DigestDiffers =>
    /\ ~last.out.ok
    /\ last.out.err =
         (IF last.op = "verifyFile" THEN "File digest mismatch!"
          ELSE "Digest mismatch!")
    /\ last.out.applied = 0
    /\ last.out.lookups = <<>>
    /\ last.out.results = <<>>

\* A mismatching call on a proof whose tree has an operation to apply and a
\* Bitcoin attestation to look up.
C5_Witness ==
  /\ DigestDiffers
  /\ ~last.out.ok
  /\ LET ts == parseOts(otsBytes).val.timestamp
     IN  ts.ops # <<>> /\ CountAttestations(ts, "bitcoin") > 0

\* C6: the outcomes of attestations are returned, never thrown.  Once
\* parsing and the digest check have passed, verifyFile and verifyDigest
\* return a result list whatever the block explorers do and whichever
\* operations fail: a lookup that fails (HTTP status, transport, response
\* that is not a block) or gives a malformed merkle root is an Error entry
\* for its attestation, and each failing operation is one Error entry.
C6_FailuresAreErrorEntries ==
  (VerifyCall /\ ChecksPassed) =>
    LET ots == parseOts(otsBytes).val IN
    /\ last.out.ok
    /\ Len(BitcoinResults) = Len(last.out.lookups)
    /\ \A k \in 1..Len(last.out.lookups) :
         (~Answered(last.out.lookups[k])
            \/ ~hexToBytes(AnswerOf(last.out.lookups[k]).merkleRoot).ok) =>
           BitcoinResults[k].status = "error"
    /\ Len(SelectSeq(last.out.results, IsOperationError))
         = FailedOperations(ots.timestamp, ots.fileDigest)

\* A returned list with an Error for a lookup that failed on both explorers
\* and an Error for an operation.
C6_Witness ==
  /\ VerifyCall /\ ChecksPassed /\ last.out.ok
  /\ \E i \in 1..Len(last.out.lookups) :
       /\ ~Answered(last.out.lookups[i])
       /\ RequestsTo(last.out.lookups[i], MEMPOOL) # <<>>
       /\ BitcoinResults[i].status = "error"
  /\ \E k \in 1..Len(last.out.results) : IsOperationError(last.out.results[k])

\* ------------------------------------------------------------------------
\* Upgrade
\* ------------------------------------------------------------------------

\* The last call that ended was an upgrade, and the only one under way on
\* the file while it ran: the tree had a single owner.
UpgradeCall == last.op = "upgradeProof" /\ last.alone

\* The file as the last call found it and as it left it.
Before ==
  [last.before.ots EXCEPT !.timestamp = TreeOf(last.before.heap, @)]

After ==
  [last.after.ots EXCEPT !.timestamp = TreeOf(last.after.heap, @)]

\* What a calendar's reply means: "upgraded" for a 2xx status with a body
\* that is not empty and parses as a Timestamp, "pending" for 404 and for
\* 2xx with an empty body, "error" for the rest.
ReplyKind(cal) ==
  IF cal.status = 404 \/ (ResponseOk(cal.status) /\ cal.body = <<>>)
  THEN "pending"
  ELSE IF ResponseOk(cal.status) /\ parseTimestampFromBytes(cal.body).ok
  THEN "upgraded"
  ELSE "error"

\* The requests of the last call that got a reply of the kind.
RequestsOfKind(kind) ==
  {k \in 1..Len(last.out.requests) : ReplyKind(last.cals[k]) = kind}

SubTreeOf(k) == parseTimestampFromBytes(last.cals[k].body).val

RECURSIVE NodeAt(_, _)
NodeAt(ts, path) ==
  IF path = <<>> THEN ts ELSE NodeAt(ts.ops[Head(path)][2], Tail(path))

\* The node of request k before the call and after it.
NodeBefore(k) == NodeAt(Before.timestamp, last.out.requests[k].node)

NodeAfter(k) == NodeAt(After.timestamp, last.out.requests[k].node)

\* What attestation i of the node at path is to become: the attestations of
\* the sub-tree that its request was answered with, or itself.
Piece(path, i) ==
  LET ks == {k \in RequestsOfKind("upgraded") :
               /\ last.out.requests[k].node = path
               /\ last.out.requests[k].index = i}
  IN  IF ks = {} THEN <<NodeAt(Before.timestamp, path).attestations[i]>>
      ELSE SubTreeOf(CHOOSE k \in ks : TRUE).attestations

RECURSIVE Pieces(_, _, _)
Pieces(path, from, to) ==
  IF from > to THEN <<>>
  ELSE Piece(path, from) \o Pieces(path, from + 1, to)

\* The continuations that the first n requests add to the node at path.
RECURSIVE AddedOps(_, _)
AddedOps(path, n) ==
  IF n = 0 THEN <<>>
  ELSE AddedOps(path, n - 1)
         \o (IF n \in RequestsOfKind("upgraded")
                  /\ last.out.requests[n].node = path
             THEN SubTreeOf(n).ops ELSE <<>>)

\* seg is the part of s that follows its first at elements.
HasSegment(s, at, seg) ==
  /\ at + Len(seg) <= Len(s)
  /\ SubSeq(s, at + 1, at + Len(seg)) = seg

\* The place of request k's attestation in its node after the call: behind
\* what the attestations before it have become.
PlaceOf(k) ==
  Len(Pieces(last.out.requests[k].node, 1, last.out.requests[k].index - 1))

\* Nothing but the sub-trees of the upgraded requests is added to the node
\* of request k.
NothingElseAdded(k) ==
  LET path == last.out.requests[k].node IN
  /\ Len(NodeAfter(k).attestations)
       = Len(Pieces(path, 1, Len(NodeBefore(k).attestations)))
  /\ Len(NodeAfter(k).ops)
       = Len(NodeBefore(k).ops) + Len(AddedOps(path, Len(last.out.requests)))

\* C7: when a Pending's request is answered with 2xx and a body that parses
\* as a Timestamp, upgradeProof takes the Pending out of its node, puts the
\* sub-tree's attestations in its place, appends the sub-tree's continuations
\* to the node's ops, and counts one more upgraded; when every Pending of the
\* tree is answered so, by sub-trees without a Pending, the tree is left
\* without a Pending and stillPending is 0.
C7_PendingReplacedBySubTree ==
  UpgradeCall =>
    /\ \A k \in RequestsOfKind("upgraded") :
         /\ NodeBefore(k).attestations[last.out.requests[k].index].type
              = "pending"
         /\ HasSegment(NodeAfter(k).attestations, PlaceOf(k),
                       SubTreeOf(k).attestations)
         /\ HasSegment(NodeAfter(k).ops,
                       Len(NodeBefore(k).ops)
                         + Len(AddedOps(last.out.requests[k].node, k - 1)),
                       SubTreeOf(k).ops)
         /\ NothingElseAdded(k)
    /\ last.out.upgraded = Cardinality(RequestsOfKind("upgraded"))
    /\ ( /\ Len(last.out.requests)
              = CountAttestations(Before.timestamp, "pending")
         /\ \A k \in 1..Len(last.out.requests) :
              /\ ReplyKind(last.cals[k]) = "upgraded"
              /\ CountAttestations(SubTreeOf(k), "pending") = 0 )
       => /\ CountAttestations(After.timestamp, "pending") = 0
          /\ last.out.stillPending = 0

\* The two Pendings of a node, each replaced by a sub-tree with two
\* attestations and a continuation, and no Pending left.
C7_Witness ==
  /\ UpgradeCall
  /\ Len(last.out.requests) = 2
  /\ last.out.requests[1].node = last.out.requests[2].node
  /\ \A k \in 1..2 :
       /\ ReplyKind(last.cals[k]) = "upgraded"
       /\ Len(SubTreeOf(k).attestations) = 2
       /\ SubTreeOf(k).ops # <<>>
  /\ last.out.upgraded = 2
  /\ CountAttestations(After.timestamp, "pending") = 0

\* The counters of the last call are the numbers of replies of each kind,
\* and the errors are those of the replies and of the operations that fail.
CountersMatchReplies ==
  /\ last.out.upgraded = Cardinality(RequestsOfKind("upgraded"))
  /\ last.out.stillPending = Cardinality(RequestsOfKind("pending"))
  /\ Len(last.out.errors)
       = Cardinality(RequestsOfKind("error"))
           + FailedOperations(Before.timestamp, Before.fileDigest)

\* C8 as stated: a Pending whose request is answered with 404, or with 2xx
\* and an empty body, is retained at the same position of its node's
\* attestation list; nothing is added to the node for it, stillPending is
\* incremented by 1, upgraded and errors are left alone.
C8_RetainedAtSamePosition ==
  UpgradeCall =>
    /\ \A k \in RequestsOfKind("pending") :
         /\ HasSegment(NodeAfter(k).attestations,
                       last.out.requests[k].index - 1,
                       <<NodeBefore(k).attestations[
                           last.out.requests[k].index]>>)
         /\ NothingElseAdded(k)
    /\ CountersMatchReplies

\* C8, amended: the Pending is retained in its node's attestation list
\* behind what the attestations before it have become (its index moves by
\* the sizes of the sub-trees that replaced earlier Pendings of the node);
\* nothing is added to the node for it, stillPending is incremented by 1,
\* upgraded and errors are left alone.
C8_RetainedInOrder ==
  UpgradeCall =>
    /\ \A k \in RequestsOfKind("pending") :
         /\ HasSegment(NodeAfter(k).attestations, PlaceOf(k),
                       <<NodeBefore(k).attestations[
                           last.out.requests[k].index]>>)
         /\ NothingElseAdded(k)
    /\ CountersMatchReplies

\* A Pending answered with 404 at a node whose earlier Pending was replaced
\* by a sub-tree with two attestations, so that it has moved.
C8_Witness ==
  /\ UpgradeCall
  /\ \E k \in RequestsOfKind("pending") :
       /\ last.cals[k].status = 404
       /\ PlaceOf(k) + 1 > last.out.requests[k].index
  /\ last.out.stillPending = 1

\* C9: a Pending whose request ends with a status that is neither 404 nor
\* 2xx, with a transport error, or with a body that does not parse as a
\* Timestamp, is retained at its node; one text error is appended to errors
\* for it, upgraded and stillPending are left alone, and the walk goes on:
\* every Pending that is reached is requested.
C9_ErrorRetainsAndContinues ==
  UpgradeCall =>
    /\ \A k \in RequestsOfKind("error") :
         /\ HasSegment(NodeAfter(k).attestations, PlaceOf(k),
                       <<NodeBefore(k).attestations[
                           last.out.requests[k].index]>>)
         /\ NodeBefore(k).attestations[last.out.requests[k].index].type
              = "pending"
    /\ Len(last.out.errors)
         = Cardinality(RequestsOfKind("error"))
             + FailedOperations(Before.timestamp, Before.fileDigest)
    /\ \A e \in 1..Len(last.out.errors) : last.out.errors[e] \in STRING
    /\ last.out.upgraded = Cardinality(RequestsOfKind("upgraded"))
    /\ last.out.stillPending = Cardinality(RequestsOfKind("pending"))
    /\ Len(last.out.requests)
         = Len(SelectSeq(ReachedAttestations(Before.timestamp,
                                             Before.fileDigest),
                         IsPending))

\* A request that failed, followed by a request that was answered.
C9_Witness ==
  /\ UpgradeCall
  /\ \E j \in RequestsOfKind("error"), k \in RequestsOfKind("upgraded") :
       j < k
  /\ Len(last.out.errors) = 1
  /\ last.out.upgraded = 1

\* C10: for a tree without a Pending anywhere, upgradeProof returns
\* alreadyComplete = true, upgraded = 0, stillPending = 0 and no errors,
\* makes no request and leaves the tree as it is; for a tree with a Pending
\* it returns alreadyComplete = false.
C10_AlreadyCompleteIffNoPending ==
  UpgradeCall =>
    IF CountAttestations(Before.timestamp, "pending") = 0
    THEN /\ last.out.alreadyComplete
         /\ last.out.upgraded = 0
         /\ last.out.stillPending = 0
         /\ last.out.errors = <<>>
         /\ last.out.requests = <<>>
         /\ After = Before
         /\ mem[1] = last.before
    ELSE ~last.out.alreadyComplete

\* A call on a tree with attestations below continuations and no Pending.
C10_Witness ==
  /\ UpgradeCall
  /\ last.out.alreadyComplete
  /\ Before.timestamp.ops # <<>>
  /\ CountAttestations(Before.timestamp, "bitcoin") > 0

\* ------------------------------------------------------------------------
\* Stamping
\* ------------------------------------------------------------------------

\* The last call was a stamp that got as far as the submissions.
Submitted == last.op \in {"stampHash", "stampFile"} /\ last.replies # <<>>

\* A server succeeds: a 2xx response whose body is not empty and at most
\* 64 KiB long.
Succeeds(reply) ==
  /\ reply.status >= 200 /\ reply.status <= 299
  /\ reply.body # <<>>
  /\ Len(reply.body) <= 65536

Succeeded == {k \in 1..Len(last.replies) : Succeeds(last.replies[k])}

\* C11: a stamp whose digest is accepted fails with "No calendar server
\* responded" exactly when no server succeeded, the error then carrying one
\* error for every server, in the servers' order; when a server succeeded
\* the call returns bytes, whichever servers failed.
C11_NoResponseIffNoServerSucceeded ==
  Submitted =>
    /\ (Succeeded = {}) <=>
          (~last.out.ok /\ last.out.err = "No calendar server responded")
    /\ (Succeeded = {}) =>
          /\ Len(last.out.errors) = Len(CALENDAR_SERVERS)
          /\ \A k \in 1..Len(CALENDAR_SERVERS) :
                last.out.errors[k].server = CALENDAR_SERVERS[k]
    /\ (Succeeded # {}) => (last.out.ok /\ last.out.val # <<>>)

\* The first server answers 500, the second succeeds, and bytes are returned.
C11_Witness ==
  /\ Submitted
  /\ last.replies[1].status = 500
  /\ Succeeded = {2}
  /\ last.out.ok
  /\ Len(last.out.errors) = 1

\* A body that is a serialised Timestamp, read to its end.
IsTimestamp(body) ==
  parseTimestampFromBytes(body).ok
    /\ parseTimestampFromBytes(body).pos = Len(body)

\* The responses of the servers that succeeded, in the servers' order,
\* parsed.
RECURSIVE SucceededTrees(_)
SucceededTrees(k) ==
  IF k > Len(last.replies) THEN <<>>
  ELSE (IF Succeeds(last.replies[k])
        THEN <<parseTimestampFromBytes(last.replies[k].body).val>>
        ELSE <<>>) \o SucceededTrees(k + 1)

RECURSIVE AllAttestations(_, _)
AllAttestations(trees, k) ==
  IF k > Len(trees) THEN <<>>
  ELSE trees[k].attestations \o AllAttestations(trees, k + 1)

RECURSIVE AllOps(_, _)
AllOps(trees, k) ==
  IF k > Len(trees) THEN <<>> ELSE trees[k].ops \o AllOps(trees, k + 1)

\* C12: when every server that succeeded returned a serialised Timestamp,
\* the stamped bytes parse to hashOp sha256, the digest passed in, and the
\* chain Prepend(nonce) -> Sha256 -> a node holding the branches of all the
\* responses as siblings (so two responses of one Pending each give two
\* Pending attestations).
C12_StampParsesToResponseSiblings ==
  (/\ Submitted
   /\ Succeeded # {}
   /\ \A k \in Succeeded : IsTimestamp(last.replies[k].body))
    => LET p == parseOts(last.out.val)
           trees == SucceededTrees(1)
           leaf == Node(AllAttestations(trees, 1), AllOps(trees, 1))
       IN  /\ last.out.ok
           /\ p.ok
           /\ p.val.hashOp = "sha256"
           /\ p.val.fileDigest = hexToBytes(last.sha256Hex).val
           /\ p.val.timestamp =
                Node(<<>>, << <<[type |-> "prepend", data |-> last.nonce],
                               Node(<<>>, << <<[type |-> "sha256"], leaf>> >>)
                            >> >>)
           /\ CountAttestations(p.val.timestamp, "pending")
                = CountAttestations(leaf, "pending")

\* ------------------------------------------------------------------------
\* Claims: the low-level readers and writers
\* ------------------------------------------------------------------------

\* readVaruint was applied to the bytes writeVaruint produced.
VaruintReadBack == last.op = "readVaruint" /\ written # <<>>

\* C13: for every n of 0 .. 2^53 - 1, readVaruint applied to the bytes of
\* writeVaruint(n) returns n and consumes exactly those bytes.
C13_VaruintRoundTrip ==
  VaruintReadBack =>
    /\ last.out.ok
    /\ last.out.val = written[1]
    /\ last.out.pos = Len(otsBytes)

\* The largest safe integer, eight bytes long, was written and read back.
C13_Witness ==
  /\ VaruintReadBack
  /\ written[1] = <<2^25 - 1, 2^28 - 1>>
  /\ Len(otsBytes) = 8
  /\ last.out.ok

\* readVaruint was applied to bytes as they arrived.
VaruintRead == last.op = "readVaruint" /\ written = <<>>

\* The first k bytes of the buffer all carry the continuation bit.
Continues(k) == Len(otsBytes) >= k /\ \A i \in 1..k : otsBytes[i] >= 128

Overflows == ~last.out.ok /\ last.out.err = "Varuint overflow"

\* C14: an eight-byte encoding whose eighth byte has payload 15 decodes to
\* 15 * 2^49; one whose eighth byte has a payload above 15 fails with varuint
\* overflow; every encoding that continues past eight bytes fails with
\* varuint overflow, whatever the payload of the ninth byte.
C14_OverflowRule ==
  VaruintRead =>
    /\ (Len(otsBytes) >= 8 /\ SubSeq(otsBytes, 1, 8) = [i \in 1..7 |-> 128] \o <<15>>)
         => (last.out.ok /\ last.out.val = <<15 * 2^21, 0>> /\ last.out.pos = 8)
    /\ (Continues(7) /\ Len(otsBytes) >= 8 /\ otsBytes[8] % 128 > 15)
         => Overflows
    /\ (Continues(8) /\ Len(otsBytes) >= 9) => Overflows

\* The file read is a header followed by one append or prepend operation,
\* or by one attestation; FieldAt is where the varbytes field of it starts.
FieldParsed ==
  /\ last.op = "parseOts"
  /\ Len(otsBytes) > Len(HeaderSha256)
  /\ SubSeq(otsBytes, 1, Len(HeaderSha256)) = HeaderSha256
  /\ otsBytes[Len(HeaderSha256) + 1] \in {TAG_APPEND, TAG_PREPEND, TAG_ATTESTATION}

InAttestation == otsBytes[Len(HeaderSha256) + 1] = TAG_ATTESTATION

FieldAt == Len(HeaderSha256) + (IF InAttestation THEN 9 ELSE 1)

\* The length the field declares is the number readVaruint returns for its
\* prefix.  A prefix read as NaN declares no length: NaN is not greater
\* than the cap, and the field is read as empty.
Declared == readVaruint(otsBytes, FieldAt)

CapError == ~last.out.ok /\ last.out.err = "Varbytes length exceeds 1 MB"

\* C15: a varbytes field whose declared length exceeds 1,048,576 is rejected
\* with a parse error whether or not its bytes are there, in append and
\* prepend payloads and in attestation payloads alike, and by readVarbytes
\* itself; a declared length of exactly 1,048,576 is not rejected by the cap.
C15_VarbytesCap ==
  /\ (FieldParsed /\ Declared.ok) =>
       /\ NumGreater(Declared.val, MAX_VARBYTES) => CapError
       /\ Declared.val = NumOf(MAX_VARBYTES) => ~CapError
  /\ (last.op = "readVarbytes" /\ readVaruint(otsBytes, 0).ok) =>
       /\ NumGreater(readVaruint(otsBytes, 0).val, MAX_VARBYTES) => CapError
       /\ readVaruint(otsBytes, 0).val = NumOf(MAX_VARBYTES) =>
            (last.out.ok <=> Len(otsBytes) >= readVaruint(otsBytes, 0).pos + MAX_VARBYTES)

\* An attestation whose payload declares one byte more than the cap, with
\* only a few bytes behind the length, was rejected for its length.
C15_Witness ==
  /\ FieldParsed
  /\ InAttestation
  /\ Declared.ok
  /\ Declared.val = NumOf(MAX_VARBYTES + 1)
  /\ Len(otsBytes) = Declared.pos + 2 + Len(WireBitcoin)
  /\ CapError

\* Every node of the tree has an attestation or a continuation.
RECURSIVE NodesHaveBranch(_)
NodesHaveBranch(ts) ==
  /\ Len(ts.attestations) + Len(ts.ops) > 0
  /\ \A i \in 1..Len(ts.ops) : NodesHaveBranch(ts.ops[i][2])

\* C16: parseOts rejects, with an unexpected-end-of-data error, an input
\* that ends where the final branch of a node is required (the root's, when
\* the file stops after the digest), so that every node of every tree it
\* returns has at least one attestation or continuation.
C16_EveryNodeHasABranch ==
  last.op = "parseOts" =>
    /\ otsBytes = HeaderSha256
         => (~last.out.ok /\ last.out.err = EOF)
    /\ last.out.ok => NodesHaveBranch(last.out.val.timestamp)

\* parseAttestation was applied to what writeAttestation wrote for a Pending.
PendingWritten ==
  /\ last.op = "parseAttestation"
  /\ written # <<>>
  /\ written[1].type = "pending"

\* C17: for Pending(uri) the writer emits the attestation marker, the 8-byte
\* Pending tag and an outer varbytes whose content is an inner varbytes of
\* the UTF-8 URI, and parseAttestation applied to it returns Pending(uri).
C17_PendingWrittenAsParsed ==
  PendingWritten =>
    /\ otsBytes = <<TAG_ATTESTATION>> \o ATT_TAG_PENDING
                    \o writeVarbytes(writeVarbytes(TextEncode(written[1].uri)))
    /\ last.out.ok
    /\ last.out.val = written[1]
    /\ last.out.pos = Len(otsBytes)

\* ------------------------------------------------------------------------
\* Claims: the walks of upgrade and verify
\* ------------------------------------------------------------------------

\* The path leads to a node of the tree.
RECURSIVE PathIn(_, _)
PathIn(ts, path) ==
  \/ path = <<>>
  \/ /\ Head(path) <= Len(ts.ops)
     /\ PathIn(ts.ops[Head(path)][2], Tail(path))

\* Entry e of a log (a request or an applied operation) is about a node the
\* tree had before the call.
InOriginal(e) == PathIn(Before.timestamp, e.node)

OriginalNode(e) == NodeAt(Before.timestamp, e.node)

\* No two entries of the log are about the same place.
OncePerPlace(log) ==
  \A k1, k2 \in 1..Len(log) :
    (log[k1].node = log[k2].node /\ log[k1].index = log[k2].index) => k1 = k2

\* C18: during upgradeProof every operation applied is a continuation the
\* tree had before the call, and every calendar request is made for a
\* Pending the tree had before the call, each once: nothing that arrived in
\* a fetched sub-tree is applied or requested in the same call.
C18_OnlyOriginalContinuationsWalked ==
  UpgradeCall =>
    /\ \A k \in 1..Len(last.out.applied) :
         LET e == last.out.applied[k] IN
         /\ InOriginal(e)
         /\ e.index <= Len(OriginalNode(e).ops)
         /\ OriginalNode(e).ops[e.index][1] = e.op
    /\ \A k \in 1..Len(last.out.requests) :
         LET e == last.out.requests[k] IN
         /\ InOriginal(e)
         /\ e.index <= Len(OriginalNode(e).attestations)
         /\ OriginalNode(e).attestations[e.index].type = "pending"
    /\ OncePerPlace(last.out.applied)
    /\ OncePerPlace(last.out.requests)
    /\ Len(last.out.requests) <= Len(last.cals)

\* Below an operation that was applied, a Pending was replaced by a
\* sub-tree that brought an operation and a Pending of its own; that
\* Pending is in the tree and nothing was requested for it.
C18_Witness ==
  /\ UpgradeCall
  /\ Len(last.out.applied) = 1
  /\ Len(last.out.requests) = 1
  /\ last.cals[1] = Calendar(200, SUB_PENDING)
  /\ last.out.upgraded = 1
  /\ CountAttestations(After.timestamp, "pending") = 1

\* The number of results of the walk of ts, and of its first j branches.
RECURSIVE ResultCount(_, _)
RECURSIVE BranchResults(_, _, _)

BranchResults(ts, msg, j) ==
  IF j = 0 THEN 0
  ELSE BranchResults(ts, msg, j - 1)
         + Then(applyOperation(ts.ops[j][1], msg), LAMBDA m :
             IF m.ok THEN ResultCount(ts.ops[j][2], m.val) ELSE 1)

ResultCount(ts, msg) ==
  Len(ts.attestations) + BranchResults(ts, msg, Len(ts.ops))

\* The results that continuation j of ts has in rs, the results of ts.
Segment(ts, msg, rs, j) ==
  SubSeq(rs, Len(ts.attestations) + BranchResults(ts, msg, j - 1) + 1,
             Len(ts.attestations) + BranchResults(ts, msg, j))

\* rs is the walk of ts in depth-first order: the node's attestations in
\* stored order, then one segment for each continuation in stored order,
\* itself in that order (or the single error of an operation that failed).
RECURSIVE DepthFirst(_, _, _)
DepthFirst(ts, msg, rs) ==
  /\ Len(rs) = ResultCount(ts, msg)
  /\ \A i \in 1..Len(ts.attestations) : Answers(rs[i], ts.attestations[i])
  /\ \A j \in 1..Len(ts.ops) :
       Then(applyOperation(ts.ops[j][1], msg), LAMBDA m :
         IF m.ok THEN DepthFirst(ts.ops[j][2], m.val, Segment(ts, msg, rs, j))
         ELSE /\ Len(Segment(ts, msg, rs, j)) = 1
              /\ IsOperationError(Segment(ts, msg, rs, j)[1]))

\* C19: the result list of verifyFile and verifyDigest is in depth-first
\* order with attestations before continuations: at every node the results
\* of its own attestations, in stored order, precede the results of its
\* first continuation's subtree, which precede those of the second, and so
\* on.
C19_ResultsDepthFirst ==
  (VerifyCall /\ ChecksPassed) =>
    /\ last.out.ok
    /\ Then(parseOts(otsBytes).val, LAMBDA ots :
            DepthFirst(ots.timestamp, ots.fileDigest, last.out.results))

\* A root with two continuations, each with an attestation below, and a
\* Bitcoin attestation of its own that the file stores behind them: its
\* result comes first, then the error of the first continuation, then the
\* result found below the second.
C19_Witness ==
  /\ VerifyCall
  /\ ChecksPassed
  /\ otsBytes = HeaderSha256 \o WireKeccakBranch \o WireShaBranch
                   \o WireBitcoin
  /\ Len(last.out.results) = 3
  /\ IsBitcoinResult(last.out.results[1])
  /\ IsOperationError(last.out.results[2])
  /\ last.out.results[3].status = "skipped"

\* The attestations of a tree, and those of them that lie below an
\* operation that fails on the path to it.
RECURSIVE TotalAttestations(_)
TotalAttestations(ts) ==
  LET RECURSIVE below(_)
      below(j) == IF j > Len(ts.ops) THEN 0
                  ELSE TotalAttestations(ts.ops[j][2]) + below(j + 1)
  IN  Len(ts.attestations) + below(1)

RECURSIVE CutOffAttestations(_, _)
CutOffAttestations(ts, msg) ==
  LET RECURSIVE below(_)
      below(j) ==
        IF j > Len(ts.ops) THEN 0
        ELSE Then(applyOperation(ts.ops[j][1], msg), LAMBDA m :
               IF m.ok THEN CutOffAttestations(ts.ops[j][2], m.val)
               ELSE TotalAttestations(ts.ops[j][2]))
               + below(j + 1)
  IN  below(1)

IsKeccakError(r) ==
  IsOperationError(r) /\ r.cause = "Keccak256 is not supported"

\* C20: when an operation of the tree cannot be executed (Keccak-256), the
\* verification still returns; its results hold exactly one error entry for
\* each such continuation reached, no result for the attestations below
\* it, and one result for every other attestation of the tree.
C20_FailedOperationCutsOnlyItsBranch ==
  (VerifyCall /\ ChecksPassed) =>
    /\ last.out.ok
    /\ Then(parseOts(otsBytes).val, LAMBDA ots :
         /\ Len(SelectSeq(last.out.results, IsKeccakError))
              = FailedOperations(ots.timestamp, ots.fileDigest)
         /\ Len(SelectSeq(last.out.results, IsAttestationResult))
              = TotalAttestations(ots.timestamp)
                  - CutOffAttestations(ots.timestamp, ots.fileDigest))

\* Below a Sha256 operation: a Keccak-256 continuation with a Pending below
\* it, and a Bitcoin attestation next to it.  One error, the Bitcoin
\* attestation reported, the Pending not.
C20_Witness ==
  /\ VerifyCall
  /\ ChecksPassed
  /\ otsBytes = HeaderSha256 \o <<TAG_SHA256>> \o WireKeccakBranch
                   \o WireBitcoin
  /\ Len(last.out.results) = 2
  /\ IsBitcoinResult(last.out.results[1])
  /\ IsKeccakError(last.out.results[2])

\* ------------------------------------------------------------------------
\* Claims: what stamping sends and embeds
\* ------------------------------------------------------------------------

\* The digest the returned file stores, and the message its first two
\* operations (read from the file's bytes) lead to from that digest.
StoredDigest(file) ==
  Slice(file, Len(HEADER_MAGIC) + 2, Len(HEADER_MAGIC) + 2 + 32)

Replayed(file) ==
  Try(parseOperation(file, Len(HEADER_MAGIC) + 2 + 32), LAMBDA op1 :
  Try(parseOperation(file, op1.pos), LAMBDA op2 :
  Try(applyOperation(op1.val, StoredDigest(file)), LAMBDA m1 :
    IF op1.val.type = "prepend" /\ op2.val.type = "sha256"
    THEN applyOperation(op2.val, m1.val)
    ELSE Thrown("not Prepend, Sha256"))))

\* C21: stampHash POSTs to every configured server, in order, the same 32
\* bytes SHA-256(nonce || fileDigest), never the file's digest itself, and
\* these bytes are the message that replaying the returned file's
\* Prepend(nonce) and Sha256 operations from its fileDigest gives.
C21_PostsCalendarDigest ==
  Submitted =>
    /\ Len(last.out.posts) = Len(CALENDAR_SERVERS)
    /\ \A k \in 1..Len(last.out.posts) :
         /\ last.out.posts[k].server = CALENDAR_SERVERS[k]
         /\ last.out.posts[k].body
              = sha256(last.nonce \o hexToBytes(last.sha256Hex).val)
         /\ last.out.posts[k].body # hexToBytes(last.sha256Hex).val
         /\ Len(last.out.posts[k].body) = 32
    /\ last.out.ok =>
         /\ StoredDigest(last.out.val) = hexToBytes(last.sha256Hex).val
         /\ Replayed(last.out.val).ok
         /\ \A k \in 1..Len(last.out.posts) :
              last.out.posts[k].body = Replayed(last.out.val).val

\* Both servers were sent the digest, one of them failed, and a file came
\* back.
C21_Witness ==
  /\ Submitted
  /\ last.out.ok
  /\ Len(last.out.posts) = 2
  /\ Len(last.out.errors) = 1
  /\ last.nonce # [i \in 1..16 |-> 0]

\* The bodies of the servers that succeeded, in the configured order.
RECURSIVE SucceededBodies(_)
SucceededBodies(k) ==
  IF k > Len(last.replies) THEN <<>>
  ELSE (IF Succeeds(last.replies[k]) THEN <<last.replies[k].body>> ELSE <<>>)
         \o SucceededBodies(k + 1)

\* The bodies one after the other, a fork marker before each but the last.
RECURSIVE Joined(_)
Joined(bodies) ==
  IF Len(bodies) = 1 THEN bodies[1]
  ELSE <<TAG_FORK>> \o bodies[1] \o Joined(Tail(bodies))

\* What a stamped file holds before the embedded responses.
StampPrefix ==
  HEADER_MAGIC \o <<1, TAG_SHA256>> \o hexToBytes(last.sha256Hex).val
    \o <<TAG_PREPEND, Len(last.nonce)>> \o last.nonce \o <<TAG_SHA256>>

\* C22: the responses embedded by stampHash are those of the servers that
\* succeeded, in the configured server order, the failed servers skipped;
\* the returned bytes are fixed by the digest, the nonce and the servers'
\* responses alone.
C22_ResponsesInServerOrder ==
  (Submitted /\ Succeeded # {}) =>
    /\ last.out.ok
    /\ last.out.val = StampPrefix \o Joined(SucceededBodies(1))

\* Both servers succeeded, with different bodies.
C22_Witness ==
  /\ Submitted
  /\ last.out.ok
  /\ Succeeded = {1, 2}
  /\ last.replies[1].body # last.replies[2].body
  /\ last.out.val # StampPrefix \o <<TAG_FORK>> \o last.replies[2].body
                      \o last.replies[1].body


\* ------------------------------------------------------------------------
\* Claims: the size of calendar responses
\* ------------------------------------------------------------------------

\* The requests of the last upgrade whose reply's body is over 64 KiB.
OversizeRequests ==
  {k \in 1..Len(last.out.requests) : Len(last.cals[k].body) > 65536}

\* Reply k's sub-tree is in the tree that the call left.
Merged(k) ==
  HasSegment(NodeAfter(k).attestations, PlaceOf(k), SubTreeOf(k).attestations)

\* C23: upgradeProof accepts no calendar response body larger than 65,536
\* bytes: such a reply is not parsed, does not count as upgraded and is not
\* merged into the tree.
C23_OversizeNeverAccepted ==
  UpgradeCall =>
    \A k \in OversizeRequests :
      /\ k \notin RequestsOfKind("upgraded") \/ ~Merged(k)
      /\ last.out.upgraded
           <= Cardinality(RequestsOfKind("upgraded") \ OversizeRequests)


\* ------------------------------------------------------------------------
\* Deep proofs.  A proof may be 256 continuations deep, so the recursions
\* of the parser and of hasPendingAttestation over it are followed one call
\* at a time, as the program runs them, on the heap of the nodes.
\*
\* last is then the synchronous call in progress:
\*   id      the node of the call
\*   stack   the callers, outermost first; the depth of the call in
\*           progress is Len(stack)
\*   at      "enter" at the head of the function, then the loop it is in,
\*           "return" at its return; other values when the outermost call
\*           has ended
\* and for parseTimestamp
\*   pos     the cursor
\*   heap    the nodes made so far
\*   stack   each caller with the operation whose child is being parsed
\*           and whether the while loop opened the branch
\* for hasPendingAttestation
\*   j       the continuation that the loop is at
\* ------------------------------------------------------------------------

\* Steps 1 to 4 of parseOts: what precedes the tree.
parseOtsHeader(data) ==
  Try(readBytes(data, 0, Len(HEADER_MAGIC)), LAMBDA header :
    IF ~constantTimeEqual(header.val, HEADER_MAGIC)
    THEN Fail("Not a valid .ots file (bad magic header)")
    ELSE
  Try(readVaruint(data, header.pos), LAMBDA version :
    IF version.val # NumOf(1) THEN Fail("Unsupported .ots version")
    ELSE
  Try(readByte(data, version.pos), LAMBDA tag :
  Try(parseHashOp(tag.val), LAMBDA hashOp :
  Try(readBytes(data, tag.pos, HASH_OP_DIGEST_LEN(hashOp.val)),
      LAMBDA fileDigest :
    Ok([hashOp |-> hashOp.val, fileDigest |-> fileDigest.val],
       fileDigest.pos))))))

\* parseTimestamp(c, 0) called by api with the cursor at pos.
ParseCall(api, header, pos) ==
  [op |-> "parseTimestamp", api |-> api, header |-> header, from |-> pos,
   pos |-> pos, id |-> 0, heap |-> <<>>, stack |-> <<>>, at |-> "enter",
   err |-> ""]

ParseThrown(f, e) == [f EXCEPT !.at = "thrown", !.err = e]

\* The depth check, rejecting a call at depth MAX_DEPTH already.
parseEnterAtCap(f) ==
  IF Len(f.stack) >= MAX_DEPTH
  THEN ParseThrown(f, "Timestamp tree exceeds maximum depth")
  ELSE [f EXCEPT !.at = "loop", !.id = Len(f.heap) + 1,
                 !.heap = Append(@, Node(<<>>, <<>>))]

\* The head of parseTimestamp: the depth check and the two empty arrays.
parseEnter(f) ==
  IF Len(f.stack) > MAX_DEPTH
  THEN ParseThrown(f, "Timestamp tree exceeds maximum depth")
  ELSE [f EXCEPT !.at = "loop", !.id = Len(f.heap) + 1,
                 !.heap = Append(@, Node(<<>>, <<>>))]

\* parseTimestampBranch with the cursor at pos; forked says whether the
\* while loop called it.
parseBranchStep(data, f, pos, forked) ==
  Then(peek(data, pos), LAMBDA tag :
    IF ~tag.ok THEN ParseThrown(f, tag.err)
    ELSE IF tag.val = TAG_ATTESTATION
    THEN Then(parseAttestation(data, pos + 1), LAMBDA att :
           IF ~att.ok THEN ParseThrown(f, att.err)
           ELSE [f EXCEPT !.pos = att.pos,
                          !.heap[f.id].attestations = Append(@, att.val),
                          !.at = IF forked THEN "loop" ELSE "return"])
    ELSE Then(parseOperation(data, pos), LAMBDA op :
           IF ~op.ok THEN ParseThrown(f, op.err)
           ELSE [f EXCEPT !.pos = op.pos,
                          !.stack = Append(@, [id |-> f.id, op |-> op.val,
                                               forked |-> forked]),
                          !.at = "enter"]))

\* One turn of the while loop of parseTimestamp, or its final branch.
parseLoop(data, f) ==
  IF remaining(data, f.pos) > 0 /\ data[f.pos + 1] = TAG_FORK
  THEN parseBranchStep(data, f, f.pos + 1, TRUE)
  ELSE IF remaining(data, f.pos) > 0
  THEN parseBranchStep(data, f, f.pos, FALSE)
  ELSE [f EXCEPT !.at = "return"]

\* return { attestations, ops }: the caller pushes [op, child] and goes on
\* with its loop, or returns in turn.
parseReturn(f) ==
  IF f.stack = <<>> THEN [f EXCEPT !.at = "done"]
  ELSE Then(f.stack[Len(f.stack)], LAMBDA top :
         [f EXCEPT !.heap[top.id].ops = Append(@, <<top.op, f.id>>),
                   !.id = top.id,
                   !.stack = SubSeq(f.stack, 1, Len(f.stack) - 1),
                   !.at = IF top.forked THEN "loop" ELSE "return"])

\* const ots = parseOts(otsBytes), up to the call of parseTimestamp.
DeepParseOts ==
  /\ last = NoCall
  /\ last' = Then(parseOtsHeader(otsBytes), LAMBDA h :
               IF h.ok THEN ParseCall("parseOts", h.val, h.pos)
               ELSE [op |-> "parseOts", out |-> h])
  /\ UNCHANGED <<otsBytes, mem, written, calls, upgrades>>

\* parseTimestampFromBytes(otsBytes), up to the call of parseTimestamp.
DeepParseTimestampFromBytes ==
  /\ last = NoCall
  /\ last' = ParseCall("parseTimestampFromBytes", <<>>, 0)
  /\ UNCHANGED <<otsBytes, mem, written, calls, upgrades>>

ParseEnter ==
  /\ last.op = "parseTimestamp"
  /\ last.at = "enter"
  /\ last' = parseEnter(last)
  /\ UNCHANGED <<otsBytes, mem, written, calls, upgrades>>

ParseLoop ==
  /\ last.op = "parseTimestamp"
  /\ last.at = "loop"
  /\ last' = parseLoop(otsBytes, last)
  /\ UNCHANGED <<otsBytes, mem, written, calls, upgrades>>

\* The return of a call; the outermost call of parseOts leaves the file in
\* memory.
ParseReturn ==
  /\ last.op = "parseTimestamp"
  /\ last.at = "return"
  /\ last' = parseReturn(last)
  /\ mem' = IF last.stack = <<>> /\ last.api = "parseOts"
            THEN <<[ots |-> [hashOp |-> last.header.hashOp,
                             fileDigest |-> last.header.fileDigest,
                             timestamp |-> last.id],
                    heap |-> last.heap,
                    origin |-> "parsed"]>>
            ELSE mem
  /\ UNCHANGED <<otsBytes, written, calls, upgrades>>

Caller(f) == [id |-> f.id, j |-> f.j]

HasPendingCall(ots) ==
  [op |-> "hasPendingAttestation", id |-> ots.timestamp, j |-> 0,
   stack |-> <<>>, at |-> "enter"]

\* hasPendingAttestation: the first loop, one turn of the second loop, or
\* the return of false to the caller; true is returned through every caller.
hasPendingStep(f, heap) ==
  IF f.at = "enter"
  THEN IF \E i \in 1..Len(heap[f.id].attestations) :
            heap[f.id].attestations[i].type = "pending"
       THEN [f EXCEPT !.at = "true"]
       ELSE [f EXCEPT !.at = "ops", !.j = 1]
  ELSE IF f.at = "ops"
  THEN IF f.j > Len(heap[f.id].ops) THEN [f EXCEPT !.at = "return"]
       ELSE [f EXCEPT !.stack = Append(@, Caller(f)),
                      !.id = heap[f.id].ops[f.j][2],
                      !.at = "enter"]
  ELSE IF f.stack = <<>> THEN [f EXCEPT !.at = "false"]
  ELSE [f EXCEPT !.id = f.stack[Len(f.stack)].id,
                 !.j = f.stack[Len(f.stack)].j + 1,
                 !.stack = SubSeq(f.stack, 1, Len(f.stack) - 1),
                 !.at = "ops"]

\* upgradeProof(ots) is called, up to the first call of
\* hasPendingAttestation.
DeepUpgradeProof ==
  /\ mem # <<>>
  /\ upgrades < MaxUpgrades
  /\ last.op = "parseTimestamp"
  /\ last.at = "done"
  /\ last' = HasPendingCall(mem[1].ots)
  /\ upgrades' = upgrades + 1
  /\ UNCHANGED <<otsBytes, mem, written, calls>>

HasPendingStep ==
  /\ last.op = "hasPendingAttestation"
  /\ last.at \in {"enter", "ops", "return"}
  /\ last' = hasPendingStep(last, mem[1].heap)
  /\ UNCHANGED <<otsBytes, mem, written, calls, upgrades>>

\* upgradeProof after hasPendingAttestation: alreadyComplete is set and the
\* call returns, or the walk runs to its first await.
DeepUpgradeWalk ==
  /\ last.op = "hasPendingAttestation"
  /\ last.at \in {"true", "false"}
  /\ calls = <<>>
  /\ UpgradeGoesOn(1, upgradeProof(UpgradeStart(mem[1], TRUE), mem[1],
                                   last.at = "true"))

\* The replies of the calendars of a deep file: still pending, a Bitcoin
\* attestation, a sub-tree with a continuation and a Pending of its own.
DeepStatuses == {404, 200}

DeepBodies == {SUB_ATTESTATION, SUB_PENDING}

\* await fetch(url, ...) ends in fetchUpgrade (upgrade.ts:105).
DeepCalendarResponds ==
  \E n \in AtAwait({"fetchUpgrade"}, {105}) :
  \E status \in DeepStatuses : CalendarTurn(n, status)

\* await response.arrayBuffer() ends (upgrade.ts:121).
DeepCalendarBodyArrives ==
  \E n \in AtAwait({"fetchUpgrade"}, {121}) :
  \E body \in DeepBodies : CalendarTurn(n, body)

\* Files and calendar responses around the depth cap: a chain of Sha256
\* continuations MAX_DEPTH long, DeepMargin shorter or longer, and what
\* follows it.
DeepMargin == 1

Chain(n) == [i \in 1..n |-> TAG_SHA256]

DeepTails ==
  { <<>>, WirePending(URI_A), SUB_PENDING,
    WireFork \o WireBitcoin \o WireFork \o <<TAG_REVERSE>> \o WireLitecoin
      \o WirePending(URI_B),
    SUB_GARBAGE }

DeepTrees ==
  { Chain(n) \o tail :
      n \in (MAX_DEPTH - DeepMargin)..(MAX_DEPTH + DeepMargin),
      tail \in DeepTails }

DeepFiles == { HeaderSha256 \o tree : tree \in DeepTrees }

InitDeep ==
  /\ otsBytes \in DeepTrees \cup DeepFiles
  /\ mem = <<>>
  /\ written = <<>>
  /\ calls = <<>>
  /\ last = NoCall
  /\ upgrades = 0

NextDeep ==
  \/ DeepParseOts
  \/ DeepParseTimestampFromBytes
  \/ ParseEnter
  \/ ParseLoop
  \/ ParseReturn
  \/ DeepUpgradeProof
  \/ HasPendingStep
  \/ DeepUpgradeWalk
  \/ DigestArrives
  \/ UpgradeTimestampResumes
  \/ UpgradeProofResumes
  \/ DeepCalendarResponds
  \/ DeepCalendarBodyArrives

SpecDeep == InitDeep /\ [][NextDeep]_vars

\* A step of NextDeep can be taken: the disjunction of the conditions of
\* its actions.  A call under way has a turn to take, whatever it awaits.
DeepEnabled ==
  \/ last = NoCall
  \/ /\ last.op = "parseTimestamp"
     /\ \/ last.at \in {"enter", "loop", "return"}
        \/ last.at = "done" /\ mem # <<>> /\ upgrades < MaxUpgrades
  \/ last.op = "hasPendingAttestation"
  \/ calls # <<>>

\* The program keeps running a call that has a step to take, and every
\* request is answered or fails: weak fairness of NextDeep, which is
\* []<>(~ENABLED <<NextDeep>>_vars \/ <<NextDeep>>_vars), with the
\* enabledness written as DeepEnabled.
SpecDeepLive ==
  SpecDeep /\ ([]<>(~DeepEnabled) \/ []<><<NextDeep>>_vars)

\* ------------------------------------------------------------------------
\* Claims: the depth cap
\* ------------------------------------------------------------------------

\* The bytes of the tree that the call in progress parses.
TreeBytes == SubSeq(otsBytes, last.from + 1, Len(otsBytes))

\* The number of Sha256 tags that b starts with.
Leading(b) ==
  CHOOSE n \in 0..Len(b) :
    /\ \A i \in 1..n : b[i] = TAG_SHA256
    /\ n = Len(b) \/ b[n + 1] # TAG_SHA256

\* What follows the leading chain, parsed.
ChainTail(b) == parseTimestampFromBytes(SubSeq(b, Leading(b) + 1, Len(b)))

\* The depth of the deepest node of a tree.
RECURSIVE TreeHeight(_)
RECURSIVE OpsHeight(_, _)
OpsHeight(ops, k) ==
  IF k > Len(ops) THEN 0
  ELSE IF 1 + TreeHeight(ops[k][2]) > OpsHeight(ops, k + 1)
  THEN 1 + TreeHeight(ops[k][2])
  ELSE OpsHeight(ops, k + 1)

TreeHeight(ts) == OpsHeight(ts.ops, 1)

\* The depth of the deepest node that the bytes describe.
Deepest(b) == Leading(b) + TreeHeight(ChainTail(b).val)

ParseEnded ==
  /\ last.op = "parseTimestamp"
  /\ last.at \in {"done", "thrown"}
  /\ ChainTail(TreeBytes).ok

IsDepthError ==
  last.at = "thrown" /\ last.err = "Timestamp tree exceeds maximum depth"

\* C24: parseOts and parseTimestampFromBytes reject with the depth error
\* every input whose tree has a node more than 256 continuations below the
\* root, and accept every input whose deepest node is at depth 256 or less
\* (the inputs being well formed otherwise).
C24_DepthCapExact ==
  ParseEnded =>
    /\ Deepest(TreeBytes) > 256 => IsDepthError
    /\ Deepest(TreeBytes) <= 256 => last.at = "done"

\* A file whose deepest node is at depth 256 was accepted by parseOts.
C24_Witness ==
  /\ ParseEnded
  /\ last.api = "parseOts"
  /\ Deepest(TreeBytes) = 256
  /\ last.at = "done"
  /\ mem # <<>>


\* ------------------------------------------------------------------------
\* Claims: the requests of an upgrade
\* ------------------------------------------------------------------------

\* The message at the node at path: the operations on the way applied in
\* order, starting from msg at ts.
RECURSIVE MsgAt(_, _, _)
MsgAt(ts, msg, path) ==
  IF path = <<>> THEN msg
  ELSE MsgAt(ts.ops[Head(path)][2],
             applyOperation(ts.ops[Head(path)][1], msg).val, Tail(path))

\* The Pending that request k is made for, and the message at its node.
PendingOf(k) == NodeBefore(k).attestations[last.out.requests[k].index]

MsgOf(k) ==
  MsgAt(Before.timestamp, Before.fileDigest,
        last.out.requests[k].node)

\* The request carries the message of its node in hex.
CarriesMsg(k) ==
  /\ hexToBytes(last.out.requests[k].url.hex).ok
  /\ hexToBytes(last.out.requests[k].url.hex).val = MsgOf(k)
  /\ last.out.requests[k].url.path = "timestamp"

SameNodeSameMsg ==
  \A j, k \in 1..Len(last.out.requests) :
    last.out.requests[j].node = last.out.requests[k].node
      => last.out.requests[j].url.hex = last.out.requests[k].url.hex

\* base is uri without the slashes it ends with.
IsStripped(base, uri) ==
  /\ Len(base) <= Len(uri)
  /\ base = SubSeq(uri, 1, Len(base))
  /\ base = <<>> \/ base[Len(base)] # 47
  /\ \A i \in (Len(base) + 1)..Len(uri) : uri[i] = 47

\* C25 as stated: the request of a Pending is GET {uri}/timestamp/{hex(msg)}
\* with the Pending's uri as it stands, msg being the result of applying the
\* operations on the path from the root to the node, from fileDigest;
\* Pendings of one node are requested with the same msg.
C25_RequestAtUriVerbatim ==
  UpgradeCall =>
    /\ \A k \in 1..Len(last.out.requests) :
         /\ last.out.requests[k].url.base = PendingOf(k).uri
         /\ CarriesMsg(k)
    /\ SameNodeSameMsg

\* C25, amended: the request is GET {base}/timestamp/{hex(msg)} where base
\* is the Pending's uri with the slashes at its end removed and msg is the
\* result of applying the operations on the path from the root to the node,
\* from fileDigest; Pendings of one node are requested with the same msg.
C25_RequestAtStrippedUri ==
  UpgradeCall =>
    /\ \A k \in 1..Len(last.out.requests) :
         /\ PendingOf(k).type = "pending"
         /\ IsStripped(last.out.requests[k].url.base, PendingOf(k).uri)
         /\ CarriesMsg(k)
    /\ SameNodeSameMsg

\* A Pending of a node below the root was requested, its uri ending in a
\* slash and its node's message differing from the file's digest.
C25_Witness ==
  /\ UpgradeCall
  /\ \E k \in 1..Len(last.out.requests) :
       /\ last.out.requests[k].node # <<>>
       /\ MsgOf(k) # Before.fileDigest
       /\ CarriesMsg(k)
       /\ last.out.requests[k].url.base # PendingOf(k).uri


\* ------------------------------------------------------------------------
\* Claims: what an upgrade leaves alone
\* ------------------------------------------------------------------------

\* a occurs in b as a subsequence: its elements, in its order.
RECURSIVE IsSubsequence(_, _)
IsSubsequence(a, b) ==
  IF a = <<>> THEN TRUE
  ELSE IF b = <<>> THEN FALSE
  ELSE IF Head(a) = Head(b) THEN IsSubsequence(Tail(a), Tail(b))
  ELSE IsSubsequence(a, Tail(b))

NotPending(att) == att.type # "pending"

\* after is before with Pendings replaced and continuations appended, at
\* this node and at the nodes below its continuations.
RECURSIVE FrameKept(_, _)
FrameKept(before, after) ==
  /\ IsSubsequence(SelectSeq(before.attestations, NotPending),
                   after.attestations)
  /\ Len(after.ops) >= Len(before.ops)
  /\ \A j \in 1..Len(before.ops) :
       /\ after.ops[j][1] = before.ops[j][1]
       /\ FrameKept(before.ops[j][2], after.ops[j][2])

\* C27: upgradeProof changes the tree only by replacing Pending attestations
\* and appending continuations: at every node the attestations that are not
\* Pending stay in their relative order, the continuations present before
\* the call remain the first of ops, with their operations, in order (their
\* children changed under the same rule), and hashOp and fileDigest are
\* unchanged; a call in which no request was answered with a sub-tree
\* leaves the tree as it was.
C27_OnlyPendingsReplacedOpsAppended ==
  UpgradeCall =>
    /\ FrameKept(Before.timestamp, After.timestamp)
    /\ After.hashOp = Before.hashOp
    /\ After.fileDigest = Before.fileDigest
    /\ RequestsOfKind("upgraded") = {}
         => After.timestamp = Before.timestamp

\* A node with a continuation of its own had a Pending replaced by a
\* sub-tree that brought a continuation.
C27_Witness ==
  /\ UpgradeCall
  /\ \E k \in RequestsOfKind("upgraded") :
       /\ NodeBefore(k).ops # <<>>
       /\ SubTreeOf(k).ops # <<>>
       /\ Len(NodeAfter(k).ops) > Len(NodeBefore(k).ops)
       /\ NodeAfter(k).ops[1] = NodeBefore(k).ops[1]


\* ------------------------------------------------------------------------
\* Claims: the counters of an upgrade
\* ------------------------------------------------------------------------

\* The Pending attestations of the tree that the call was given.
PendingsBefore == CountAttestations(Before.timestamp, "pending")

\* C29: upgraded + stillPending is at most the number of Pending
\* attestations of the input tree, and is that number whenever the returned
\* errors list is empty.
C29_CountersBoundedByPendings ==
  UpgradeCall =>
    /\ last.out.upgraded + last.out.stillPending <= PendingsBefore
    /\ last.out.errors = <<>>
         => last.out.upgraded + last.out.stillPending = PendingsBefore

\* Two Pendings, one upgraded and one still pending, and no error.
C29_Witness ==
  /\ UpgradeCall
  /\ last.out.errors = <<>>
  /\ last.out.upgraded = 1
  /\ last.out.stillPending = 1
  /\ PendingsBefore = 2


\* ------------------------------------------------------------------------
\* Claims: the depth cap after an upgrade
\* ------------------------------------------------------------------------

\* The node at the end of a path of first continuations, in a heap whose
\* nodes the parser made one below the other.
ChainNode(path) == Len(path) + 1

\* The continuations that the last call has appended to the node.
Appended(id) ==
  SubSeq(last.after.heap[id].ops, Len(last.before.heap[id].ops) + 1,
         Len(last.after.heap[id].ops))

\* The last call was an upgrade, and its request k, made for a node on the
\* chain, was answered with a sub-tree.
MergedOnChain(k) ==
  /\ last.op = "upgradeProof"
  /\ k \in 1..Len(last.out.requests)
  /\ ReplyKind(last.cals[k]) = "upgraded"
  /\ \A i \in 1..Len(last.out.requests[k].node) :
       last.out.requests[k].node[i] = 1

\* C30: the tree left by upgradeProof has no node deeper than 256: the
\* nodes of a sub-tree merged at depth d lie at depth d + 1 and below, and
\* none of them is deeper than 256.
C30_UpgradedTreeWithinCap ==
  last.op = "upgradeProof" =>
    \A k \in 1..Len(last.out.requests) :
      MergedOnChain(k) =>
        \A a \in 1..Len(Appended(ChainNode(last.out.requests[k].node))) :
          Len(last.out.requests[k].node) + 1
            + TreeHeight(TreeOf(last.after.heap,
                                Appended(ChainNode(
                                  last.out.requests[k].node))[a][2]))
            <= 256


\* ------------------------------------------------------------------------
\* Claims: the termination of an upgrade
\* ------------------------------------------------------------------------

\* The Pending attestations of the tree of the file in memory.
FilePendings ==
  CountAttestations(
    ChainTail(SubSeq(otsBytes, Len(HeaderSha256) + 1, Len(otsBytes))).val,
    "pending")

\* upgradeProof has been called and has not yet looked at the tree.
UpgradeCalled ==
  last.op = "hasPendingAttestation" /\ last.at = "enter" /\ last.stack = <<>>

\* The walk of upgradeProof is under way.
Walking == calls # <<>>

\* upgradeProof has returned: alreadyComplete, or the walk has ended.
UpgradeReturned == last.op = "upgradeProof"

\* No two of the requests are for the same attestation of the same node,
\* and there are no more of them than Pendings in the file.
OnePerPending(requests) ==
  /\ Len(requests) <= FilePendings
  /\ \A a, b \in 1..Len(requests) :
       a # b => \/ requests[a].node # requests[b].node
                \/ requests[a].index # requests[b].index

\* C28: upgradeProof terminates whatever the calendars answer, sub-trees
\* with Pending attestations of their own included: at every moment of the
\* walk it has issued at most one request per Pending attestation of the
\* input tree, and every call returns.
C28_UpgradeTerminates ==
  /\ [](Walking => OnePerPending(calls[1].u.requests))
  /\ (UpgradeCalled ~> UpgradeReturned)

\* The call has returned from the deepest node of the longest accepted
\* file, whose Pending was replaced by a sub-tree with a Pending of its own.
C28_Witness ==
  /\ UpgradeReturned
  /\ ~last.out.alreadyComplete
  /\ last.cals = <<Calendar(200, SUB_PENDING)>>
  /\ Len(last.out.requests) = 1
  /\ FilePendings = 1
  /\ Leading(SubSeq(otsBytes, Len(HeaderSha256) + 1, Len(otsBytes)))
       = MAX_DEPTH
  /\ \E k \in 1..Len(mem[1].heap[MAX_DEPTH + 1].ops) :
       CountAttestations(
         TreeOf(mem[1].heap, mem[1].heap[MAX_DEPTH + 1].ops[k][2]),
         "pending") = 1


=============================================================================
